---------------------------- MODULE Spec2Model ----------------------------
(***************************************************************************)
(* Avatar rendering service: the request handler, the single-flight lock,  *)
(* the in-memory job queue and the write path of a render.                 *)
(*                                                                         *)
(* Two handlers exist in the repository.  SpecLock is the lock-based       *)
(* handler of app/modules/api.js (generationLocks + generationEvents);     *)
(* SpecQueue is the queue-based handler (InMemoryQueue + jobsInProgress).  *)
(* Both share the user record, the remote object store and the caches.     *)
(*                                                                         *)
(* One user is modelled; a single-flight key `${username}-${hash}` is      *)
(* therefore identified with the fingerprint.  A rendered raster is        *)
(* represented by the customization it was rendered from (0 = no bytes).   *)
(***************************************************************************)
EXTENDS Integers, Sequences, FiniteSets, TLC

\* ----- bounds of the model
MaxReq == 2          \* getAvatar requests in one behaviour (lock-based handler)
NCust  == 2          \* distinct customizations the user switches between
MaxJobs == 2         \* jobs InMemoryQueue.add creates in one behaviour of the handler
UnitJobs == 3        \* jobs add creates in one behaviour of InMemoryQueue on its own
MaxConcurrency == 2  \* largest QUEUE_CONCURRENCY the service is started with
MaxQueueSize == 2    \* largest options.maxQueueSize (1000 in avatarQueue), scaled down
ShortRetries == 2    \* options.retryAttempts of the handler's queue (3 in avatarQueue), scaled down
MaxPriority == 0     \* highest priority among the requests that submit a job
Layers == 3          \* getImage calls of one createAvatarThumbnail (37 in the code), scaled down
MaxFailures == 6     \* largest CircuitBreaker.failures followed
ClockStep == 30000   \* milliseconds between two readings of Date.now()
MaxNow == 150000     \* last Date.now() followed
MaxArrivals == 4     \* requests that arrive at queuedGetAvatar in one behaviour
MaxMs == 1           \* milliseconds Date.now() advances while they arrive
MaxUploads == 3      \* uploadImage calls in one behaviour
MaxWriters == 2      \* renders that write the avatar file of one hash in one behaviour
MaxReaders == 2      \* requests that read it
FileChunks == 2      \* write calls fs.writeFile needs for the avatar bytes
MaxItem == 1         \* item ids a slot of the customization can refer to
MaxWorkers == 3      \* largest os.cpus().length
NPixels == 2         \* pixels of the image data handed to processWithWorkers

\* ----- constants of the program
avatarQueueRetryAttempts == 3    \* retryAttempts: 3
avatarQueueRetryDelay == 2000    \* retryDelay: 2000
threshold == 5                   \* CircuitBreaker: threshold = 5
timeout == 60000                 \* CircuitBreaker: timeout = 60000
RETRY_ATTEMPTS == 3              \* const RETRY_ATTEMPTS = 3
MAX_CONCURRENT_REQUESTS == 3     \* const MAX_CONCURRENT_REQUESTS = 3
targetR == 0                     \* targetR: 0
targetG == 255                   \* targetG: 255
targetB == 4                     \* targetB: 4
toleranceR == 50                 \* toleranceR: 50
toleranceG == 150                \* toleranceG: 150
toleranceB == 50                 \* toleranceB: 50

Reqs  == 1..MaxReq
Custs == 1..NCust
Locs  == {"user-clothing", "user-thumbnail", "user-avatar"}
Types == {"avatar", "sprite", "thumbnail"}

\* typeMap of getAvatar: the long names and the aliases a, s, t; anything else
\* is undefined ("").
typeMap(rawType) ==
    CASE rawType \in {"a", "avatar"}    -> "avatar"
      [] rawType \in {"s", "sprite"}    -> "sprite"
      [] rawType \in {"t", "thumbnail"} -> "thumbnail"
      [] OTHER                          -> ""

RawTypes == {"a", "s", "t", "avatar", "sprite", "thumbnail"}

\* A :type parameter that typeMap does not have.
OtherRawTypes == {"avatars"}

\* xxHash32(JSON.stringify({username, customization}), 0): a 32-bit hash of the
\* serialized record.  The model keeps a multiplicative hash of the customization
\* index (the username is fixed); it is injective on Custs, i.e. hash collisions
\* (probability 2^-32) are outside the model.
Fingerprint(c) == (c * 40503 + 374761393) % 2147483647

Hashes == {Fingerprint(c) : c \in Custs}

VARIABLES
    customization,    \* the user's current customization in the database
    user,             \* [customizationHash, clothing, thumbnail, avatar] of the user record
    remote,           \* object store: Locs -> customization the object was rendered from, 0 = absent
    avatarCache,      \* LRU avatarCache: hash -> bytes (0 = no entry)
    avatarsDir,       \* avatars/<hash>.webp: hash -> bytes (0 = no file)
    uploadModule,     \* which uploadImage is deployed: "reject" (uploadContent.js) or "null" (returns null)
    generationLocks,  \* keys of generationLocks
    listeners,        \* generationEvents.once listeners, in registration order
    timers,           \* armed GENERATION_TIMEOUT timers, in arming order (all have the same delay)
    req,              \* per request: position and response
    render,           \* per request: the createAvatarThumbnail call it started
    concurrency,      \* InMemoryQueue.concurrency, from QUEUE_CONCURRENCY
    maxQueueSize,     \* InMemoryQueue.maxQueueSize
    retryAttempts,    \* InMemoryQueue.retryAttempts
    queue,            \* InMemoryQueue.queue: the waiting jobs
    jobs,             \* the job objects created by InMemoryQueue.add
    processing,       \* InMemoryQueue.processing: key -> job (0 = no entry)
    workers,          \* InMemoryQueue.workers
    completed,        \* InMemoryQueue.completed
    failed,           \* InMemoryQueue.failed
    jobsInProgress,   \* keys of the jobsInProgress map
    clearing,         \* clearAllCaches of the queue-based handler is between its two steps
    imageLoadCircuitBreaker,  \* [state, failures, nextAttempt] of the part-sprite breaker
    now,              \* Date.now()
    openedAt,         \* history: Date.now() when the breaker last entered OPEN
    streak,           \* history: wrapped calls that failed since the last one that succeeded
    calls,            \* per layer: the getImage call of the render in progress
    rpc,              \* createAvatarThumbnail of the image loader: "idle", "load", "composed"
    sheet,            \* layers composited into the last sprite sheet
    memoryCache,      \* memoryCache holds the part sprite
    cacheDir,         \* cache/<md5>.png of the part sprite exists
    gen,              \* a createAvatarThumbnail call followed through its composition
    requestQueue,     \* requestQueue of api.js: the requests waiting for a slot
    activeRequests,   \* activeRequests of api.js: a Set of requestIds
    handlers,         \* per arriving request: the promise of its getAvatar call
    dateNow,          \* Date.now() in milliseconds, as queuedGetAvatar reads it
    admitLocks,       \* generationLocks as the admitted handlers see it: the usernames locked
    bucket,           \* the Space: key -> the upload whose bytes the object holds (0 = no object)
    upload,           \* the uploadImage call in progress or returned last
    deleting,         \* per key: the s3.deleteObject requests sent and not yet carried out
    avatarFile,       \* avatars/<hash>.webp of one hash: whether it exists and the chunks it holds
    fsWrite,          \* per render: its fs.writeFile call on that file
    fsRead,           \* per request: its fs.readFile call on that file
    hashing,          \* two user records read by getAvatar and the strings it hashed for them
    maskCall,         \* the processWithWorkers call: its arguments and the state of its promise
    sharedResult,     \* the bytes of the SharedArrayBuffer sharedResult
    imageWorkers      \* per worker of the call: "none", "posted", "done" or "failed"

lockVars == <<generationLocks, listeners, timers, req, render>>
dataVars == <<customization, user, remote, avatarCache, avatarsDir, uploadModule>>
config == <<concurrency, maxQueueSize, retryAttempts>>
imageVars == <<imageLoadCircuitBreaker, now, openedAt, streak, calls, rpc, sheet, memoryCache, cacheDir>>
composeVars == <<gen>>
admitVars == <<requestQueue, activeRequests, handlers, dateNow, admitLocks>>
uploadVars == <<bucket, upload, deleting>>
fileVars == <<avatarFile, fsWrite, fsRead>>
hashVars == <<hashing>>
maskVars == <<maskCall, sharedResult, imageWorkers>>
otherVars == <<composeVars, admitVars, uploadVars, fileVars, hashVars, maskVars>>
queueVars == <<concurrency, maxQueueSize, retryAttempts, queue, jobs, processing, workers, completed, failed, jobsInProgress, clearing>>
vars == <<customization, user, remote, avatarCache, avatarsDir, uploadModule,
          generationLocks, listeners, timers, req, render,
          concurrency, maxQueueSize, retryAttempts, queue, jobs, processing, workers, completed, failed, jobsInProgress, clearing,
          imageLoadCircuitBreaker, now, openedAt, streak, calls, rpc, sheet, memoryCache, cacheDir,
          gen, requestQueue, activeRequests, handlers, dateNow, admitLocks,
          bucket, upload, deleting, avatarFile, fsWrite, fsRead, hashing,
          maskCall, sharedResult, imageWorkers>>

NoUploads == [l \in Locs |-> "idle"]
\* A request: pc is its position in getAvatar; status, xcache and bytes are the
\* response it sent (status 0 = none yet).  A request that has finished is
\* "done" for one step, in which its response can be observed, and "closed"
\* afterwards.
IdleReq == [pc |-> "idle", type |-> "", cust |-> 0, status |-> 0, xcache |-> "", bytes |-> 0]
ClosedReq == [IdleReq EXCEPT !.pc = "closed"]
\* A createAvatarThumbnail call: its position, its user snapshot and type, and
\* the state of its three uploads.
IdleRender == [rpc |-> "none", cust |-> 0, type |-> "", up |-> NoUploads]

\* The job objects of a behaviour; the specification fixes how many there are.
JobIds == DOMAIN jobs
\* A job object: st is where the queue has it ("free" = not created yet), pc its
\* position in processJob; runs counts the calls of processJob for it, delay is
\* the delay of the retry timer armed last, term counts the job-completed and
\* job-failed events emitted for it.
FreeJob == [st |-> "free", cust |-> 0, type |-> "", priority |-> 0, attempts |-> 0,
            runs |-> 0, delay |-> 0, pc |-> "", up |-> NoUploads, term |-> 0]

\* No response is waiting to be observed.
Observed == \A r \in Reqs : req[r].pc # "done"

Remove(s, x) == SelectSeq(s, LAMBDA y : y # x)
RemoveListener(s, w) == SelectSeq(s, LAMBDA y : y.w # w)

\* res.status(st)...send(): the response of request record q.
Responded(q, st, xc, b) == [q EXCEPT !.pc = "done", !.status = st, !.xcache = xc, !.bytes = b]

\* The state at process start.  The memory cache and the lock state are empty;
\* the user record, the object store and avatars/ persist from earlier runs:
\* the user was never rendered (prev = 0) or was last rendered, completely, for
\* the stored customization; a render for another customization is the second
\* case after ChangeCustomization.  The customizations are interchangeable, so
\* the first one is the stored one.
NeverRendered == [customizationHash |-> 0, clothing |-> "none", thumbnail |-> "none", avatar |-> "none"]
RenderedFor(c) == [customizationHash |-> Fingerprint(c), clothing |-> "key", thumbnail |-> "key", avatar |-> "key"]

InitData ==
    /\ customization = 1
    /\ \E prev \in {0, customization} :
          /\ user = IF prev = 0 THEN NeverRendered ELSE RenderedFor(prev)
          /\ remote = [l \in Locs |-> prev]
          /\ avatarsDir = [h \in Hashes |-> IF prev # 0 /\ h = Fingerprint(prev) THEN prev ELSE 0]
    /\ avatarCache = [h \in Hashes |-> 0]
    /\ uploadModule \in {"reject", "null"}

\* new CircuitBreaker() (api.js 89-95, 130); nothing is loaded or cached yet.
NewBreaker == [state |-> "CLOSED", failures |-> 0, nextAttempt |-> 0]

LayerIds == 1..Layers

\* i: the retry of retryWithBackoff in progress; via: the state execute found
\* the breaker in when it went on to fn.  Both end with the wrapped call.
IdleCall == [pc |-> "idle", item |-> 0, i |-> 0, via |-> "", result |-> ""]

InitImage ==
    /\ imageLoadCircuitBreaker = NewBreaker
    /\ now = 0
    /\ openedAt = 0
    /\ streak = 0
    /\ calls = [c \in LayerIds |-> IdleCall]
    /\ rpc = "idle"
    /\ sheet = {}
    /\ memoryCache = FALSE
    /\ cacheDir = FALSE

\* The layers followed through the composition, besides base.
Parts == {"bottom", "shoes", "hair"}

\* No createAvatarThumbnail call is followed.  refs: the parts the
\* customization names; loaded: those whose getImage returned bytes; markX,
\* markS: the description of the bottom item contains '!x', of the hair item
\* '!s'; frame: the layers composited for the direction done last, bottom
\* first; cached, body: width and height of the raster put in avatarCache and
\* of the one returned.
IdleGen == [pc |-> "idle", type |-> "", refs |-> {}, loaded |-> {}, markX |-> FALSE, markS |-> FALSE,
            shoesBehindPants |-> FALSE, hairInfrontTop |-> FALSE,
            direction |-> 0, frame |-> <<>>, thumbnail |-> <<>>, cached |-> <<>>, body |-> <<>>]

\* The requests that arrive at queuedGetAvatar, in arrival order.
Arrivals == 1..MaxArrivals
Usernames == {"a", "b"}
AdmitTypes == {"sprite", "avatar"}

\* The promise of one getAvatar call: pc is "new" (not arrived), "queued" (in
\* requestQueue), "start" (getAvatar called), "holding" (it set the lock),
\* "waiting" (it returned the promise of the waiter path), "signing" (its
\* listener asked for the signed URL), "answered" (307 sent, the promise still
\* pending), "settled" (resolved or rejected, .finally not run yet), "closed".
NewHandler == [pc |-> "new", username |-> "", type |-> "", requestId |-> <<>>]
ClosedHandler == [NewHandler EXCEPT !.pc = "closed"]

InitAdmitted ==
    /\ requestQueue = <<>>
    /\ activeRequests = {}
    /\ handlers = [r \in Arrivals |-> NewHandler]
    /\ dateNow = 0
    /\ admitLocks = {}

\* The keys of the Space that uploadImage is followed on: NamedKey is
\* `${location}/${fileName}.webp`, key n >= 1 is the one built from the uuid()
\* of the n-th call; NoKey is an empty previousMedia or a null result.
NamedKey == 0
NoKey == 0 - 1
Keys == 0..MaxUploads

\* One uploadImage call: n numbers the calls, recorded is the key the caller
\* stored from the last call that returned one (user.clothing) and passes as
\* previousMedia to the next.
IdleUpload == [pc |-> "idle", previousMedia |-> NoKey, Key |-> NoKey, n |-> 0,
               outcome |-> "", recorded |-> NoKey]

InitUploads ==
    /\ bucket = [k \in Keys |-> 0]
    /\ upload = IdleUpload
    /\ deleting = [k \in Keys |-> 0]

\* The renders that write avatars/<hash>.webp of one hash and the requests
\* that read it; the bytes of the avatar are written in FileChunks chunks.
Writers == 1..MaxWriters
Readers == 1..MaxReaders
Chunks == 1..FileChunks
NoFile == [exists |-> FALSE, chunks |-> {}]
IdleWrite == [pc |-> "idle", written |-> 0]
IdleRead == [pc |-> "idle", error |-> "", chunks |-> {}]

InitFile ==
    /\ avatarFile = NoFile
    /\ fsWrite = [w \in Writers |-> IdleWrite]
    /\ fsRead = [r \in Readers |-> IdleRead]

\* A customization as a lean read returns it: its properties in the order
\* they are stored in, each <<key, value>> with an item id, null or undefined
\* as value.  SlotKeys are the slots in the order the schema declares them.
SlotKeys == <<"hat", "top">>
Null == 0
Undefined == 0 - 1
Values == (1..MaxItem) \cup {Null, Undefined}
IdleHashing == [pc |-> "idle", a |-> <<>>, b |-> <<>>, sa |-> <<>>, sb |-> <<>>]

\* The workers of one processWithWorkers call, numbered from 0 as in its loop.
WorkerIds == 0..(MaxWorkers - 1)
IdleMaskCall == [pc |-> "idle", sourceData |-> <<>>, maskData |-> <<>>, useMask |-> FALSE, numWorkers |-> 0]

InitMask ==
    /\ maskCall = IdleMaskCall
    /\ sharedResult = <<>>
    /\ imageWorkers = [w \in WorkerIds |-> "none"]

Init ==
    /\ InitData
    /\ generationLocks = {}
    /\ listeners = <<>>
    /\ timers = <<>>
    /\ req = [r \in Reqs |-> IdleReq]
    /\ render = [r \in Reqs |-> IdleRender]
    /\ concurrency \in 1..MaxConcurrency
    /\ maxQueueSize \in 1..MaxQueueSize
    /\ retryAttempts \in {ShortRetries, avatarQueueRetryAttempts}
    /\ queue = <<>>
    /\ \E n \in {MaxJobs, UnitJobs} : jobs = [j \in 1..n |-> FreeJob]
    /\ processing = [h \in Hashes |-> 0]
    /\ workers = 0
    /\ completed = 0
    /\ failed = 0
    /\ jobsInProgress = {}
    /\ clearing = FALSE
    /\ InitImage
    /\ gen = IdleGen
    /\ InitAdmitted
    /\ InitUploads
    /\ InitFile
    /\ hashing = IdleHashing
    /\ InitMask

\* ------------------------------------------------------------------------
\* generationEvents.emit(key, error, result): the `once` listeners registered
\* for key are removed and called in registration order.  A waiter listener
\* clears its timer, then rejects (error), or asks for the signed URL (sprite),
\* or sends the result with res.set/res.status(200).send (api.js 789-802).  A
\* listener whose response was already sent throws from res.set; emit then
\* stops and the exception reaches the emitter.  A rejected waiter promise is
\* answered 500 by queuedGetAvatar's catch unless headers were sent.
\* A listener is [w, key, type]; acc = [req, keep, timers, threw].
RECURSIVE Emit(_, _, _, _, _)
Emit(ls, key, isError, value, acc) ==
    IF ls = <<>> THEN acc
    ELSE LET l == Head(ls)
             q == acc.req[l.w]
             stale == q.pc # "wait"
         IN IF l.key # key \/ acc.threw
            THEN Emit(Tail(ls), key, isError, value, [acc EXCEPT !.keep = Append(@, l)])
            ELSE LET q2 == IF stale THEN q
                           ELSE IF isError THEN Responded(q, 500, "", 0)
                           ELSE IF l.type = "sprite" THEN [q EXCEPT !.pc = "wsign"]
                           ELSE Responded(q, 200, "", value)
                 IN Emit(Tail(ls), key, isError, value,
                         [req    |-> [acc.req EXCEPT ![l.w] = q2],
                          keep   |-> acc.keep,
                          timers |-> Remove(acc.timers, l.w),
                          threw  |-> (~isError /\ l.type # "sprite" /\ stale)])

EmitAcc(rq) == [req |-> rq, keep |-> <<>>, timers |-> timers, threw |-> FALSE]

\* The catch block's guard before it emits the error (api.js 830).
EmitsError(key) == key \in generationLocks

\* getAvatar after `await Promise.race([...])` resolved with value (api.js 817-825
\* and the finally 842-847); rq is req with what the render did to the response.
HolderResolved(r, value, rq) ==
    LET key == Fingerprint(req[r].cust)
        e   == Emit(listeners, key, FALSE, value, EmitAcc(rq))
        e2  == IF e.threw /\ EmitsError(key)
               THEN Emit(e.keep, key, TRUE, 0, [e EXCEPT !.keep = <<>>, !.threw = FALSE])
               ELSE e
        q   == e2.req[r]
        q2  == IF q.status # 0 THEN [q EXCEPT !.pc = "done"]
               ELSE IF e.threw THEN Responded(q, 500, "", 0)
               ELSE IF q.type # "sprite" THEN Responded(q, 200, "MISS", value)
               ELSE [q EXCEPT !.pc = "done"]
    IN /\ req' = [e2.req EXCEPT ![r] = q2]
       /\ listeners' = e2.keep
       /\ timers' = Remove(e2.timers, r)
       /\ generationLocks' = generationLocks \ {key}

\* getAvatar's catch and finally for a holder whose race rejected (api.js 826-847):
\* st is 504 for 'Generation timeout' and 500 otherwise.
HolderRejected(r, st) ==
    LET key == Fingerprint(req[r].cust)
        e   == IF EmitsError(key) THEN Emit(listeners, key, TRUE, 0, EmitAcc(req))
               ELSE [EmitAcc(req) EXCEPT !.keep = listeners]
    IN /\ req' = [e.req EXCEPT ![r] = Responded(@, st, "", 0)]
       /\ listeners' = e.keep
       /\ timers' = Remove(e.timers, r)
       /\ generationLocks' = generationLocks \ {key}

\* The value createAvatarThumbnail returned reaches the holder, unless the holder
\* has already left the race through its timeout.
Settle(r, value, rq) ==
    IF req[r].pc = "gen" THEN HolderResolved(r, value, rq)
    ELSE /\ req' = rq
         /\ UNCHANGED <<listeners, timers, generationLocks>>

\* ------------------------------------------------------------------------
\* The finally block of getAvatar (api.js 842-847) as it runs on the waiter's
\* `return new Promise(...)`: lockKey is set, so the key is deleted.
WaiterFinally(key) == generationLocks \ {key}

\* getAvatar from the lock check on (api.js 780-815), entered in the same turn as
\* the step that calls it; rq is req with the caller's changes.
LockStep(r, rq) ==
    LET key == Fingerprint(rq[r].cust)
    IN IF key \in generationLocks
       THEN /\ req' = [rq EXCEPT ![r].pc = "wait"]
            /\ listeners' = Append(listeners, [w |-> r, key |-> key, type |-> rq[r].type])
            /\ timers' = Append(timers, r)
            /\ generationLocks' = WaiterFinally(key)
            /\ UNCHANGED render
       ELSE /\ req' = [rq EXCEPT ![r].pc = "gen"]
            /\ generationLocks' = generationLocks \cup {key}
            /\ timers' = Append(timers, r)
            /\ render' = [render EXCEPT ![r] = [rpc |-> "compose", cust |-> rq[r].cust,
                                                type |-> rq[r].type, up |-> NoUploads]]
            /\ UNCHANGED listeners

\* A request arrives (queuedGetAvatar -> getAvatar, api.js 698-721) with a
\* valid type and username; User.findOne is pending.
Arrive(r, rawType) ==
    /\ Observed
    /\ req[r].pc = "idle"
    /\ \A s \in Reqs : s < r => req[s].pc # "idle"
    /\ req' = [req EXCEPT ![r] = [@ EXCEPT !.pc = "find", !.type = typeMap(rawType)]]
    /\ UNCHANGED <<generationLocks, listeners, timers, render>>
    /\ UNCHANGED dataVars
    /\ UNCHANGED <<queueVars, imageVars, otherVars>>

\* A request arrives that does not pass the validation (api.js 702-721):
\* sanitizeUsername throws 'Invalid username' for a username that is missing or
\* not a string (148-153), which the catch answers as any other error
\* (826-841) with lockKey still null; a type typeMap does not have is answered
\* 400.
Refuse(r, rawType, named) ==
    /\ Observed
    /\ req[r].pc = "idle"
    /\ \A s \in Reqs : s < r => req[s].pc # "idle"
    /\ ~named \/ typeMap(rawType) = ""
    /\ req' = [req EXCEPT ![r] = Responded(@, IF ~named THEN 500 ELSE 400, "", 0)]
    /\ UNCHANGED <<generationLocks, listeners, timers, render>>
    /\ UNCHANGED dataVars
    /\ UNCHANGED <<queueVars, imageVars, otherVars>>

\* User.findOne rejected: 'Database unavailable' (api.js 728-731, 837-838).
FindFailed(r) ==
    /\ Observed
    /\ req[r].pc = "find"
    /\ req' = [req EXCEPT ![r] = Responded(@, 503, "", 0)]
    /\ UNCHANGED <<generationLocks, listeners, timers, render>>
    /\ UNCHANGED dataVars
    /\ UNCHANGED <<queueVars, imageVars, otherVars>>

\* User.findOne resolved with the user; the handler runs on to its next await
\* (api.js 737-767 and, when the disk tier is not consulted, 780-815).
FindUser(r) ==
    /\ Observed
    /\ req[r].pc = "find"
    /\ LET hash  == Fingerprint(customization)
           valid == user.customizationHash = hash
           q     == [req[r] EXCEPT !.cust = customization]
       IN IF q.type = "sprite" /\ valid
          THEN \E s3ok \in BOOLEAN :
                  /\ req' = [req EXCEPT ![r] = Responded(q, IF s3ok THEN 307 ELSE 503, "", 0)]
                  /\ UNCHANGED <<generationLocks, listeners, timers, render>>
          ELSE IF q.type # "sprite" /\ avatarCache[hash] # 0
          THEN /\ req' = [req EXCEPT ![r] = Responded(q, 200, "HIT", avatarCache[hash])]
               /\ UNCHANGED <<generationLocks, listeners, timers, render>>
          ELSE IF valid /\ q.type # "sprite"
          THEN /\ req' = [req EXCEPT ![r] = [q EXCEPT !.pc = "disk"]]
               /\ UNCHANGED <<generationLocks, listeners, timers, render>>
          ELSE LockStep(r, [req EXCEPT ![r] = q])
    /\ UNCHANGED dataVars
    /\ UNCHANGED <<queueVars, imageVars, otherVars>>

\* fs.readFile(avatars/<hash>.webp) settled (api.js 766-778), then the lock check.
DiskRead(r) ==
    /\ Observed
    /\ req[r].pc = "disk"
    /\ LET hash == Fingerprint(req[r].cust)
       IN IF avatarsDir[hash] # 0
          THEN /\ avatarCache' = [avatarCache EXCEPT ![hash] = avatarsDir[hash]]
               /\ req' = [req EXCEPT ![r] = Responded(@, 200, "DISK", avatarsDir[hash])]
               /\ UNCHANGED <<generationLocks, listeners, timers, render>>
          ELSE /\ LockStep(r, req)
               /\ UNCHANGED avatarCache
    /\ UNCHANGED <<customization, user, remote, avatarsDir, uploadModule>>
    /\ UNCHANGED <<queueVars, imageVars, otherVars>>

\* ------------------------------------------------------------------------
\* createAvatarThumbnail(user, hash, type, res), api.js 510-695.  The render
\* works on the user snapshot of its request and runs on when the holder has
\* left the race.

\* A variant of StoreKey: the key is recomputed from the record as it is in the
\* database when the render stores, not from the snapshot that was rendered.
StoreKey_fromDatabase(r) == Fingerprint(customization)

\* The key under which the render stores its avatar (api.js 630, 636): the hash
\* its caller computed from the same user snapshot.
StoreKey(r) == Fingerprint(render[r].cust)

\* Base image, part images, item metadata, sprite sheet and front crop
\* (api.js 512-627); a failure rejects the render (691-694).
RenderCompose(r) ==
    /\ Observed
    /\ render[r].rpc = "compose"
    /\ \E ok \in BOOLEAN :
          IF ok
          THEN /\ render' = [render EXCEPT ![r].rpc = "disk"]
               /\ UNCHANGED <<req, listeners, timers, generationLocks>>
          ELSE /\ render' = [render EXCEPT ![r] = IdleRender]
               /\ IF req[r].pc = "gen" THEN HolderRejected(r, 500)
                  ELSE UNCHANGED <<req, listeners, timers, generationLocks>>
    /\ UNCHANGED dataVars
    /\ UNCHANGED <<queueVars, imageVars, otherVars>>

\* fs.writeFile(avatars/<hash>.webp) settled, then avatarCache.set and, for
\* avatar and thumbnail, the return (api.js 629-641).
RenderSave(r) ==
    /\ Observed
    /\ render[r].rpc = "disk"
    /\ avatarsDir' = [avatarsDir EXCEPT ![StoreKey(r)] = render[r].cust]
    /\ avatarCache' = [avatarCache EXCEPT ![StoreKey(r)] = render[r].cust]
    /\ IF render[r].type # "sprite"
       THEN /\ render' = [render EXCEPT ![r] = IdleRender]
            /\ Settle(r, render[r].cust, req)
       ELSE /\ render' = [render EXCEPT ![r].rpc = "upload", ![r].up = [l \in Locs |-> "pend"]]
            /\ UNCHANGED <<req, listeners, timers, generationLocks>>
    /\ UNCHANGED <<customization, user, remote, uploadModule>>
    /\ UNCHANGED <<queueVars, imageVars, otherVars>>

\* What uploadImage does when s3.upload failed in all attempts: uploadContent.js
\* rejects (64-67), the other uploadImage resolves with null (78-82).
uploadFailure == IF uploadModule = "reject" THEN "fail" ELSE "null"

\* A render whose call has returned and whose uploads have all settled.
Finished(rn) == IF rn.rpc = "end" /\ \A l \in Locs : rn.up[l] # "pend" THEN IdleRender ELSE rn

\* One of the three retryWithBackoff(uploadContent(...)) of Promise.all settled
\* (api.js 650-660).  The three run in parallel and go on after Promise.all has
\* rejected.
RenderUpload(r, l) ==
    /\ Observed
    /\ render[r].up[l] = "pend"
    /\ \E ok \in BOOLEAN :
          IF ok
          THEN /\ remote' = [remote EXCEPT ![l] = render[r].cust]
               /\ render' = [render EXCEPT ![r] = Finished([@ EXCEPT !.up[l] = "ok"])]
          ELSE /\ render' = [render EXCEPT ![r] = Finished([@ EXCEPT !.up[l] = uploadFailure])]
               /\ UNCHANGED remote
    /\ UNCHANGED <<customization, user, avatarCache, avatarsDir, uploadModule>>
    /\ UNCHANGED <<req, listeners, timers, generationLocks>>
    /\ UNCHANGED <<queueVars, imageVars, otherVars>>

\* Promise.all rejected: catch (uploadError) returns the avatar buffer
\* (api.js 687-690).
RenderUploadFailed(r) ==
    /\ Observed
    /\ render[r].rpc = "upload"
    /\ \E l \in Locs : render[r].up[l] = "fail"
    /\ render' = [render EXCEPT ![r] = Finished([@ EXCEPT !.rpc = "end"])]
    /\ Settle(r, render[r].cust, req)
    /\ UNCHANGED dataVars
    /\ UNCHANGED <<queueVars, imageVars, otherVars>>

\* The key an upload resolved with: `${location}/${username}.webp`, or null.
UploadedKey(u) == IF u = "ok" THEN "key" ELSE "null"

\* The update of User.updateOne (api.js 663-675).
UpdatedUser(r) ==
    [customizationHash |-> Fingerprint(render[r].cust),
     clothing  |-> UploadedKey(render[r].up["user-clothing"]),
     thumbnail |-> UploadedKey(render[r].up["user-thumbnail"]),
     avatar    |-> UploadedKey(render[r].up["user-avatar"])]

\* Promise.all resolved: User.updateOne with the new hash and the three keys
\* (api.js 662-679).
RenderUpdateUser(r) ==
    /\ Observed
    /\ render[r].rpc = "upload"
    /\ \A l \in Locs : render[r].up[l] \in {"ok", "null"}
    /\ user' = UpdatedUser(r)
    /\ render' = [render EXCEPT ![r].rpc = "sign", ![r].up = NoUploads]
    /\ UNCHANGED <<customization, remote, avatarCache, avatarsDir, uploadModule>>
    /\ UNCHANGED <<req, listeners, timers, generationLocks>>
    /\ UNCHANGED <<queueVars, imageVars, otherVars>>

\* s3.getSignedUrlPromise settled, then res.status(307).redirect (api.js 681-690).
\* redirect returns undefined; when the URL fails, or the response was already
\* sent (the holder timed out), the exception is caught and the avatar buffer
\* is returned.
RenderRedirect(r) ==
    /\ Observed
    /\ render[r].rpc = "sign"
    /\ render' = [render EXCEPT ![r] = IdleRender]
    /\ \E s3ok \in BOOLEAN :
          IF s3ok /\ req[r].pc = "gen"
          THEN Settle(r, 0, [req EXCEPT ![r].status = 307])
          ELSE Settle(r, render[r].cust, req)
    /\ UNCHANGED dataVars
    /\ UNCHANGED <<queueVars, imageVars, otherVars>>

\* The signed URL asked by a sprite waiter settled (api.js 793-796): redirect,
\* after which the waiter's promise is never resolved, or reject.
WaiterRedirect(w) ==
    /\ Observed
    /\ req[w].pc = "wsign"
    /\ \E s3ok \in BOOLEAN :
          req' = [req EXCEPT ![w] = Responded(@, IF s3ok THEN 307 ELSE 500, "", 0)]
    /\ UNCHANGED <<generationLocks, listeners, timers, render>>
    /\ UNCHANGED dataVars
    /\ UNCHANGED <<queueVars, imageVars, otherVars>>

\* The oldest armed GENERATION_TIMEOUT timer fires: the holder's race rejects
\* (api.js 812-814), or the waiter's promise rejects (785-787) and is answered
\* by queuedGetAvatar's catch; the waiter's listener stays registered.
TimerExpire ==
    /\ Observed
    /\ timers # <<>>
    /\ LET r == Head(timers)
       IN IF req[r].pc = "gen"
          THEN HolderRejected(r, 504)
          ELSE /\ req' = [req EXCEPT ![r] = Responded(@, 500, "", 0)]
               /\ timers' = Tail(timers)
               /\ UNCHANGED <<listeners, generationLocks>>
    /\ UNCHANGED render
    /\ UNCHANGED dataVars
    /\ UNCHANGED <<queueVars, imageVars, otherVars>>

\* The platform stores another customization for the user.
ChangeCustomization(c) ==
    /\ Observed
    /\ c # customization
    /\ customization' = c
    /\ UNCHANGED <<user, remote, avatarCache, avatarsDir, uploadModule>>
    /\ UNCHANGED lockVars
    /\ UNCHANGED <<queueVars, imageVars, otherVars>>

\* avatarCache.clear() of clearAllCaches and of checkMemoryUsage
\* (api.js 928-942, 179-182).
L_clearAllCaches ==
    /\ Observed
    /\ avatarCache # [h \in Hashes |-> 0]
    /\ avatarCache' = [h \in Hashes |-> 0]
    /\ UNCHANGED <<customization, user, remote, avatarsDir, uploadModule>>
    /\ UNCHANGED lockVars
    /\ UNCHANGED <<queueVars, imageVars, otherVars>>

\* The responses of the last step have been observed.
Observe ==
    /\ \E r \in Reqs : req[r].pc = "done"
    /\ req' = [r \in Reqs |-> IF req[r].pc = "done" THEN ClosedReq ELSE req[r]]
    /\ UNCHANGED <<generationLocks, listeners, timers, render>>
    /\ UNCHANGED dataVars
    /\ UNCHANGED <<queueVars, imageVars, otherVars>>

NextLock ==
    \/ Observe
    \/ \E r \in Reqs, t \in RawTypes : Arrive(r, t)
    \/ \E r \in Reqs, t \in RawTypes \cup OtherRawTypes, named \in BOOLEAN : Refuse(r, t, named)
    \/ \E r \in Reqs : FindFailed(r)
    \/ \E r \in Reqs : FindUser(r)
    \/ \E r \in Reqs : DiskRead(r)
    \/ \E r \in Reqs : RenderCompose(r)
    \/ \E r \in Reqs : RenderSave(r)
    \/ \E r \in Reqs, l \in Locs : RenderUpload(r, l)
    \/ \E r \in Reqs : RenderUploadFailed(r)
    \/ \E r \in Reqs : RenderUpdateUser(r)
    \/ \E r \in Reqs : RenderRedirect(r)
    \/ \E r \in Reqs : WaiterRedirect(r)
    \/ TimerExpire
    \/ \E c \in Custs : ChangeCustomization(c)
    \/ L_clearAllCaches

InitLock ==
    /\ Init
    /\ concurrency = 1
    /\ maxQueueSize = 1
    /\ retryAttempts = ShortRetries
    /\ DOMAIN jobs = 1..MaxJobs

SpecLock == InitLock /\ [][NextLock]_vars


\* ------------------------------------------------------------------------
\* The queue-based handler: InMemoryQueue (part_004 17-139)

\* `${username}-${hash}` of a job, for the one user of the model.
JobKey(jb, j) == Fingerprint(jb[j].cust)

\* The queue's state as one value, so that processNext can be applied to the
\* result of the statements that precede its call.
QS == [queue |-> queue, processing |-> processing, workers |-> workers, jobs |-> jobs]

SetQS(q) ==
    /\ queue' = q.queue
    /\ processing' = q.processing
    /\ workers' = q.workers
    /\ jobs' = q.jobs

\* processNext up to its await (part_004 66-83): shift the head, enter it in
\* processing, workers++, and processJob runs up to its User.findOne.
processNext(q) ==
    IF q.workers >= concurrency \/ q.queue = <<>>
    THEN q
    ELSE LET j == Head(q.queue)
         IN [queue |-> Tail(q.queue),
             processing |-> [q.processing EXCEPT ![JobKey(q.jobs, j)] = j],
             workers |-> q.workers + 1,
             jobs |-> [q.jobs EXCEPT ![j].st = "running", ![j].pc = "find", ![j].runs = @ + 1]]

\* queue.sort((a, b) => b.priority - a.priority): stable, highest first; the
\* priorities in use are 1 and 0 (part_004 58, 320).
SortByPriority(q, jb) ==
    SelectSeq(q, LAMBDA j : jb[j].priority = 1) \o SelectSeq(q, LAMBDA j : jb[j].priority = 0)

Priority(type) == IF type = "thumbnail" THEN 1 ELSE 0

\* The job object add would create: the next unused one.
NewJob == CHOOSE j \in JobIds : jobs[j].st = "free" /\ \A i \in JobIds : i < j => jobs[i].st # "free"

\* A variant of the capacity check that lets the queue grow one past
\* maxQueueSize.
AddStatus_exclusive(key) ==
    IF Len(queue) > maxQueueSize THEN "capacity"
    ELSE IF processing[key] # 0 THEN "duplicate"
    ELSE "queued"

\* The outcome of InMemoryQueue.add (part_004 35-64).
AddStatus(key) ==
    IF Len(queue) >= maxQueueSize THEN "capacity"
    ELSE IF processing[key] # 0 THEN "duplicate"
    ELSE "queued"

\* add for an accepted job: push, sort, processNext (part_004 41-61).
add(type, cust) ==
    LET j  == NewJob
        jb == [jobs EXCEPT ![j] = [FreeJob EXCEPT !.st = "queued", !.cust = cust, !.type = type,
                                                  !.priority = Priority(type)]]
    IN processNext([queue |-> SortByPriority(Append(queue, j), jb),
                    processing |-> processing, workers |-> workers, jobs |-> jb])

\* A job object the queue no longer refers to.
Gone(st) == [FreeJob EXCEPT !.st = st, !.term = IF st = "ended" THEN 1 ELSE 0]

\* if (job.attempts < this.retryAttempts), after job.attempts++ (part_004 87-89).
ShouldRetry_inclusive(attempts) == attempts <= retryAttempts

ShouldRetry(attempts) == attempts < retryAttempts

\* 2^n
RECURSIVE Pow2(_)
Pow2(n) == IF n = 0 THEN 1 ELSE 2 * Pow2(n - 1)

\* delay = this.retryDelay * Math.pow(2, job.attempts - 1) (part_004 91).
RetryDelay(attempts) == avatarQueueRetryDelay * Pow2(attempts - 1)

\* processJob has returned (ok) or thrown: its finally removes the key from
\* jobsInProgress (part_004 399-403); then processNext goes on (84-106) with
\* completed++ and job-completed, or attempts++ and either the retry timer and
\* job-retry or failed++ and job-failed; finally processing.delete(key),
\* workers-- and processNext().
JobEnd(j, ok) ==
    LET k     == JobKey(jobs, j)
        retry == ~ok /\ ShouldRetry(jobs[j].attempts + 1)
        jb    == [jobs EXCEPT ![j] = IF retry
                                     THEN [@ EXCEPT !.st = "retry", !.pc = "", !.up = NoUploads,
                                                    !.attempts = @ + 1,
                                                    !.delay = RetryDelay(jobs[j].attempts + 1)]
                                     ELSE Gone("ended")]
    IN /\ jobsInProgress' = jobsInProgress \ {k}
       /\ completed' = IF ok THEN completed + 1 ELSE completed
       /\ failed' = IF ~ok /\ ~retry THEN failed + 1 ELSE failed
       /\ SetQS(processNext([queue |-> queue, processing |-> [processing EXCEPT ![k] = 0],
                             workers |-> workers - 1, jobs |-> jb]))

\* The retry timer of a failed job fires: queue.unshift(job), processNext()
\* (part_004 92-95).
RetryTimer(j) ==
    /\ jobs[j].st = "retry"
    /\ SetQS(processNext([queue |-> <<j>> \o queue, processing |-> processing, workers |-> workers,
                          jobs |-> [jobs EXCEPT ![j].st = "queued"]]))
    /\ UNCHANGED <<completed, failed, jobsInProgress, clearing>>
    /\ UNCHANGED dataVars
    /\ UNCHANGED lockVars
    /\ UNCHANGED <<config, imageVars, otherVars>>

\* The 100 ms interval of startProcessing (part_004 109-116): processNext,
\* concurrency times.
RECURSIVE Times(_, _)
Times(n, q) == IF n = 0 THEN q ELSE Times(n - 1, processNext(q))

Tick ==
    /\ SetQS(Times(concurrency, QS))
    /\ UNCHANGED <<completed, failed, jobsInProgress, clearing>>
    /\ UNCHANGED dataVars
    /\ UNCHANGED lockVars
    /\ UNCHANGED <<config, imageVars, otherVars>>

\* A variant of clear that also resets the workers counter, as it resets
\* completed and failed.
clear_resetsWorkers(q) ==
    [queue |-> <<>>, processing |-> [h \in Hashes |-> 0], workers |-> 0,
     jobs |-> [j \in JobIds |-> IF q.jobs[j].st = "queued" THEN Gone("dropped") ELSE q.jobs[j]]]

\* InMemoryQueue.clear (part_004 133-138): queue and processing are emptied,
\* workers is left alone; the job objects of the emptied queue are referred to
\* by nothing any more.
clear(q) ==
    [queue |-> <<>>, processing |-> [h \in Hashes |-> 0], workers |-> q.workers,
     jobs |-> [j \in JobIds |-> IF q.jobs[j].st = "queued" THEN Gone("dropped") ELSE q.jobs[j]]]


\* ------------------------------------------------------------------------
\* The queue-based handler: processJob and generateAvatarAsync (part_004 373-506)

Running(j, pc) == jobs[j].st = "running" /\ jobs[j].pc = pc

\* A variant of the hash check that goes on to the render whatever the record
\* holds.
J_Found_unchecked(j, dbok) ==
    /\ Running(j, "find")
    /\ IF ~dbok
       THEN JobEnd(j, FALSE)
       ELSE /\ jobs' = [jobs EXCEPT ![j].pc = "compose"]
            /\ UNCHANGED <<queue, processing, workers, completed, failed, jobsInProgress>>
    /\ UNCHANGED clearing
    /\ UNCHANGED dataVars
    /\ UNCHANGED lockVars
    /\ UNCHANGED <<config, imageVars, otherVars>>

\* User.findOne of processJob has settled (dbok: with the user), then the hash
\* check (part_004 380-390): the job is skipped when the user's customization
\* is no longer the job's.
J_Found(j, dbok) ==
    /\ Running(j, "find")
    /\ IF ~dbok
       THEN JobEnd(j, FALSE)
       ELSE IF Fingerprint(customization) # Fingerprint(jobs[j].cust)
            THEN JobEnd(j, TRUE)
            ELSE /\ jobs' = [jobs EXCEPT ![j].pc = "compose"]
                 /\ UNCHANGED <<queue, processing, workers, completed, failed, jobsInProgress>>
    /\ UNCHANGED clearing
    /\ UNCHANGED dataVars
    /\ UNCHANGED lockVars
    /\ UNCHANGED <<config, imageVars, otherVars>>

J_Find(j) == \E dbok \in BOOLEAN : J_Found(j, dbok)

\* The sprite sheet is composed from the snapshot and avatarCache.set(hash, ...)
\* (part_004 408-478); a failing read or compose throws.
J_Compose(j) ==
    /\ Running(j, "compose")
    /\ \E ok \in BOOLEAN :
          IF ok
          THEN /\ avatarCache' = [avatarCache EXCEPT ![Fingerprint(jobs[j].cust)] = jobs[j].cust]
               /\ jobs' = [jobs EXCEPT ![j].pc = "user-clothing"]
               /\ UNCHANGED <<queue, processing, workers, completed, failed, jobsInProgress>>
          ELSE /\ JobEnd(j, FALSE)
               /\ UNCHANGED avatarCache
    /\ UNCHANGED clearing
    /\ UNCHANGED <<customization, user, remote, avatarsDir, uploadModule>>
    /\ UNCHANGED lockVars
    /\ UNCHANGED <<config, imageVars, otherVars>>

\* The order of the three awaited uploads (part_004 484-486).
AfterUpload(l) ==
    CASE l = "user-clothing"  -> "user-thumbnail"
      [] l = "user-thumbnail" -> "user-avatar"
      [] l = "user-avatar"    -> "update"

\* One awaited uploadContent (part_004 484-486): the object is written, or the
\* upload rejects and the job throws, or it resolves with null.
J_Upload(j, l) ==
    /\ Running(j, l)
    /\ \E ok \in BOOLEAN :
          IF ok
          THEN /\ remote' = [remote EXCEPT ![l] = jobs[j].cust]
               /\ jobs' = [jobs EXCEPT ![j].pc = AfterUpload(l), ![j].up[l] = "ok"]
               /\ UNCHANGED <<queue, processing, workers, completed, failed, jobsInProgress>>
          ELSE IF uploadFailure = "fail"
               THEN /\ JobEnd(j, FALSE)
                    /\ UNCHANGED remote
               ELSE /\ jobs' = [jobs EXCEPT ![j].pc = AfterUpload(l), ![j].up[l] = "null"]
                    /\ UNCHANGED <<queue, processing, workers, completed, failed, jobsInProgress>>
                    /\ UNCHANGED remote
    /\ UNCHANGED clearing
    /\ UNCHANGED <<customization, user, avatarCache, avatarsDir, uploadModule>>
    /\ UNCHANGED lockVars
    /\ UNCHANGED <<config, imageVars, otherVars>>

\* User.updateOne of generateAvatarAsync (part_004 489-498); its failure is
\* thrown to processJob.
J_Update(j) ==
    /\ Running(j, "update")
    /\ \E dbok \in BOOLEAN :
          IF dbok
          THEN /\ user' = [customizationHash |-> Fingerprint(jobs[j].cust),
                           clothing  |-> UploadedKey(jobs[j].up["user-clothing"]),
                           thumbnail |-> UploadedKey(jobs[j].up["user-thumbnail"]),
                           avatar    |-> UploadedKey(jobs[j].up["user-avatar"])]
               /\ JobEnd(j, TRUE)
          ELSE /\ JobEnd(j, FALSE)
               /\ UNCHANGED user
    /\ UNCHANGED clearing
    /\ UNCHANGED <<customization, remote, avatarCache, avatarsDir, uploadModule>>
    /\ UNCHANGED lockVars
    /\ UNCHANGED <<config, imageVars, otherVars>>

\* ------------------------------------------------------------------------
\* The queue-based handler: getAvatar and clearAllCaches (part_004 234-370, 814-890)

\* The object a type is served from (part_004 196-218).
LocOf(type) ==
    CASE type = "sprite"    -> "user-clothing"
      [] type = "thumbnail" -> "user-thumbnail"
      [] OTHER              -> "user-avatar"

\* The key of the user record a type is served from (part_004 336-351).
KeyOf(u, type) ==
    CASE type = "sprite"    -> u.clothing
      [] type = "thumbnail" -> u.thumbnail
      [] OTHER              -> u.avatar

Redirect(type) == [status |-> 307, body |-> "redirect", bytes |-> remote[LocOf(type)]]
Default == [status |-> 200, body |-> "default", bytes |-> 0]

\* The branch getAvatar takes (part_004 250-312): the memory cache, the
\* redirect to the stored object, the reply while a job is in progress, or the
\* submission of a job.
Branch(type) ==
    LET currentHash == Fingerprint(customization)
        valid       == user.customizationHash = currentHash
    IN IF valid /\ type = "avatar" /\ avatarCache[currentHash] # 0 THEN "cached"
       ELSE IF valid /\ remote[LocOf(type)] # 0 THEN "redirect"
       ELSE IF currentHash \in jobsInProgress THEN "inprogress"
       ELSE "add"

\* A variant of the response in which the reply while a job is in progress is
\* always the default asset.
Response_defaultInProgress(type) ==
    LET currentHash == Fingerprint(customization)
        exists      == remote[LocOf(type)] # 0
    IN CASE Branch(type) = "cached"   -> [status |-> 200, body |-> "cached", bytes |-> avatarCache[currentHash]]
         [] Branch(type) = "redirect" -> Redirect(type)
         [] Branch(type) = "inprogress" -> Default
         [] OTHER -> IF KeyOf(user, type) = "key" /\ exists THEN Redirect(type) ELSE Default

\* The response of getAvatar when none of its reads fails (part_004 262-364).
Response(type) ==
    LET currentHash == Fingerprint(customization)
        exists      == remote[LocOf(type)] # 0
    IN CASE Branch(type) = "cached"   -> [status |-> 200, body |-> "cached", bytes |-> avatarCache[currentHash]]
         [] Branch(type) = "redirect" -> Redirect(type)
         [] Branch(type) = "inprogress" ->
                IF user.customizationHash # 0 /\ user.customizationHash # currentHash /\ exists
                THEN Redirect(type) ELSE Default
         [] OTHER -> IF KeyOf(user, type) = "key" /\ exists THEN Redirect(type) ELSE Default

\* getAvatar (part_004 234-370) for a request that reaches avatarQueue.add; the
\* other branches change nothing.  Its reads of the user record and of the
\* object store are taken at one instant.
Q_getAvatar(type) ==
    /\ Priority(type) <= MaxPriority
    /\ Branch(type) = "add"
    /\ LET currentHash == Fingerprint(customization)
           status      == AddStatus(currentHash)
       IN /\ IF status = "queued"
             THEN /\ \E j \in JobIds : jobs[j].st = "free"
                  /\ SetQS(add(type, customization))
             ELSE UNCHANGED <<queue, jobs, processing, workers>>
          /\ jobsInProgress' = IF status = "capacity" THEN jobsInProgress
                               ELSE jobsInProgress \cup {currentHash}
    /\ UNCHANGED <<completed, failed, clearing>>
    /\ UNCHANGED dataVars
    /\ UNCHANGED lockVars
    /\ UNCHANGED <<config, imageVars, otherVars>>

\* clearAllCaches, first step: avatarCache.clear() (part_004 823-827); the disk
\* cache is emptied while the rest of the program runs (836-861).
Q_clearMemory ==
    /\ ~clearing
    /\ clearing' = TRUE
    /\ avatarCache' = [h \in Hashes |-> 0]
    /\ UNCHANGED <<customization, user, remote, avatarsDir, uploadModule>>
    /\ UNCHANGED <<queue, jobs, processing, workers, completed, failed, jobsInProgress>>
    /\ UNCHANGED lockVars
    /\ UNCHANGED <<config, imageVars, otherVars>>

\* clearAllCaches, second step: avatarQueue.clear() and jobsInProgress.clear()
\* (part_004 864-867).
Q_clearQueue ==
    /\ clearing
    /\ clearing' = FALSE
    /\ SetQS(clear(QS))
    /\ completed' = 0
    /\ failed' = 0
    /\ jobsInProgress' = {}
    /\ UNCHANGED dataVars
    /\ UNCHANGED lockVars
    /\ UNCHANGED <<config, imageVars, otherVars>>

NextQueue ==
    \/ \E t \in Types : Q_getAvatar(t)
    \/ \E j \in JobIds : J_Find(j)
    \/ \E j \in JobIds : J_Compose(j)
    \/ \E j \in JobIds, l \in Locs : J_Upload(j, l)
    \/ \E j \in JobIds : J_Update(j)
    \/ \E j \in JobIds : RetryTimer(j)
    \/ Tick
    \/ Q_clearMemory
    \/ Q_clearQueue
    \/ \E c \in Custs : ChangeCustomization(c)

\* The queue-based handler is started with uploadContent.js, whose uploadImage
\* rejects when the upload failed.
InitQueue ==
    /\ Init
    /\ uploadModule = "reject"
    /\ maxQueueSize = 1
    /\ retryAttempts = ShortRetries
    /\ DOMAIN jobs = 1..MaxJobs

SpecQueue == InitQueue /\ [][NextQueue]_vars


\* ------------------------------------------------------------------------
\* InMemoryQueue on its own (part_004 17-139): a client that calls add for any
\* type and key, a processJob that resolves or rejects, the retry timers, the
\* polling interval and clear().

\* The queue after add(jobData, options) returned or threw (part_004 35-64).
Added(type, cust) ==
    IF AddStatus(Fingerprint(cust)) = "queued" THEN add(type, cust) ELSE QS

\* A client calls add, as getAvatar does with the priority of the type
\* (part_004 314-321).
U_add(type, cust) ==
    /\ AddStatus(Fingerprint(cust)) = "queued" => \E j \in JobIds : jobs[j].st = "free"
    /\ SetQS(Added(type, cust))
    /\ UNCHANGED <<completed, failed, jobsInProgress, clearing>>
    /\ UNCHANGED dataVars
    /\ UNCHANGED lockVars
    /\ UNCHANGED <<config, imageVars, otherVars>>

\* The promise of processJob settles (part_004 83-106).
U_processJob(j) ==
    /\ Running(j, "find")
    /\ \E ok \in BOOLEAN : JobEnd(j, ok)
    /\ UNCHANGED clearing
    /\ UNCHANGED dataVars
    /\ UNCHANGED lockVars
    /\ UNCHANGED <<config, imageVars, otherVars>>

\* clear() (part_004 133-138).
U_clear ==
    /\ SetQS(clear(QS))
    /\ completed' = 0
    /\ failed' = 0
    /\ UNCHANGED <<jobsInProgress, clearing>>
    /\ UNCHANGED dataVars
    /\ UNCHANGED lockVars
    /\ UNCHANGED <<config, imageVars, otherVars>>

NextJobs ==
    \/ \E t \in Types, c \in Custs : U_add(t, c)
    \/ \E j \in JobIds : U_processJob(j)
    \/ \E j \in JobIds : RetryTimer(j)
    \/ Tick
    \/ U_clear

\* The queue is constructed as avatarQueue is, with three attempts.
InitJobs ==
    /\ Init
    /\ user = NeverRendered
    /\ uploadModule = "reject"
    /\ retryAttempts = avatarQueueRetryAttempts
    /\ DOMAIN jobs = 1..UnitJobs

SpecJobs == InitJobs /\ [][NextJobs]_vars


\* ------------------------------------------------------------------------
\* Part sprites: CircuitBreaker, retryWithBackoff and getImage (api.js 88-146,
\* 192-253) under the image loading of createAvatarThumbnail (api.js 527-584)

serverVars == <<dataVars, lockVars, queueVars>>

\* A variant of onSuccess that closes the breaker and keeps its count.
onSuccess_keepsCount(b) == [b EXCEPT !.state = "CLOSED"]

\* CircuitBreaker.onSuccess (api.js 114-117).
onSuccess(b) == [b EXCEPT !.failures = 0, !.state = "CLOSED"]

\* A variant of onFailure that opens the breaker one failure later.
onFailure_late(b) ==
    IF b.failures + 1 > threshold
    THEN [state |-> "OPEN", failures |-> b.failures + 1, nextAttempt |-> now + timeout]
    ELSE [b EXCEPT !.failures = @ + 1]

\* CircuitBreaker.onFailure (api.js 119-125).
onFailure(b) ==
    IF b.failures + 1 >= threshold
    THEN [state |-> "OPEN", failures |-> b.failures + 1, nextAttempt |-> now + timeout]
    ELSE [b EXCEPT !.failures = @ + 1]

\* execute throws 'Circuit breaker is OPEN' without calling fn (api.js 98-101).
Rejects(b) == b.state = "OPEN" /\ now < b.nextAttempt

\* execute goes on to fn: an OPEN breaker becomes HALF_OPEN (api.js 98-103).
Admit(b) == IF b.state = "OPEN" THEN [b EXCEPT !.state = "HALF_OPEN"] ELSE b

\* Date.now() of the step in which the breaker enters OPEN.
Opened(b) == IF imageLoadCircuitBreaker.state # "OPEN" /\ b.state = "OPEN" THEN now ELSE openedAt

\* A variant of getImage's catch that throws the error on to the caller.
OnError_rethrows(cl) == [IdleCall EXCEPT !.pc = "done", !.item = cl.item, !.result = "rejected"]

\* The catch of getImage: the error is logged and null returned (api.js 248-251).
OnError(cl) == [IdleCall EXCEPT !.pc = "done", !.item = cl.item, !.result = "null"]

\* getImage up to its first await (api.js 192-202): null for a missing item,
\* the cached bytes on a memory hit, else the load is handed to imageLoadLimit,
\* whose 10 slots the layers of the model never exhaust.
getImage(item) ==
    IF item = 0 THEN [IdleCall EXCEPT !.pc = "done", !.result = "null"]
    ELSE IF memoryCache THEN [IdleCall EXCEPT !.pc = "done", !.item = item, !.result = "bytes"]
    ELSE [IdleCall EXCEPT !.pc = "disk", !.item = item]

\* createAvatarThumbnail calls getImage for every layer (api.js 527-566); a
\* layer has an item or none.
I_load ==
    /\ rpc # "load"
    /\ \E items \in [LayerIds -> {0, 1}] : calls' = [c \in LayerIds |-> getImage(items[c])]
    /\ rpc' = "load"
    /\ sheet' = {}
    /\ UNCHANGED <<imageLoadCircuitBreaker, now, openedAt, streak, memoryCache, cacheDir>>
    /\ UNCHANGED <<serverVars, otherVars>>

\* The disk cache read (api.js 204-216): a hit returns the file, cached in
\* memory when small; on a miss the fetch is handed to
\* imageLoadCircuitBreaker.execute (api.js 219-220, 97-103), which throws when
\* OPEN before nextAttempt and else calls retryWithBackoff.
I_disk(c) ==
    /\ calls[c].pc = "disk"
    /\ IF cacheDir
       THEN /\ calls' = [calls EXCEPT ![c].pc = "done", ![c].result = "bytes"]
            /\ \E small \in BOOLEAN : memoryCache' = (memoryCache \/ small)
            /\ UNCHANGED imageLoadCircuitBreaker
       ELSE /\ IF Rejects(imageLoadCircuitBreaker)
               THEN /\ calls' = [calls EXCEPT ![c] = OnError(@)]
                    /\ UNCHANGED imageLoadCircuitBreaker
               ELSE /\ calls' = [calls EXCEPT ![c].pc = "fn", ![c].via = imageLoadCircuitBreaker.state]
                    /\ imageLoadCircuitBreaker' = Admit(imageLoadCircuitBreaker)
            /\ UNCHANGED memoryCache
    /\ UNCHANGED <<now, openedAt, streak, rpc, sheet, cacheDir>>
    /\ UNCHANGED <<serverVars, otherVars>>

\* One axios.get of retryWithBackoff (api.js 135-146, 221-231): a response
\* resolves fn, and execute calls onSuccess; a failure is retried after a sleep
\* until the last of RETRY_ATTEMPTS, whose error execute answers with onFailure
\* and throws to the catch of getImage.
I_fetch(c) ==
    /\ calls[c].pc = "fn"
    /\ \E ok \in BOOLEAN :
          IF ok
          THEN /\ imageLoadCircuitBreaker' = onSuccess(imageLoadCircuitBreaker)
               /\ streak' = 0
               /\ calls' = [calls EXCEPT ![c] = [IdleCall EXCEPT !.pc = "decode", !.item = calls[c].item]]
               /\ UNCHANGED openedAt
          ELSE IF calls[c].i < RETRY_ATTEMPTS - 1
               THEN /\ calls' = [calls EXCEPT ![c].i = @ + 1]
                    /\ UNCHANGED <<imageLoadCircuitBreaker, streak, openedAt>>
               ELSE /\ imageLoadCircuitBreaker.failures < MaxFailures
                    /\ imageLoadCircuitBreaker' = onFailure(imageLoadCircuitBreaker)
                    /\ streak' = streak + 1
                    /\ openedAt' = Opened(onFailure(imageLoadCircuitBreaker))
                    /\ calls' = [calls EXCEPT ![c] = OnError(@)]
    /\ UNCHANGED <<now, rpc, sheet, memoryCache, cacheDir>>
    /\ UNCHANGED <<serverVars, otherVars>>

\* sharp(data).png().toBuffer() (api.js 234-246): the PNG is cached in memory
\* when small and written to the disk cache, a write that may fail; a decode
\* failure goes to the catch of getImage.
I_decode(c) ==
    /\ calls[c].pc = "decode"
    /\ \E ok \in BOOLEAN :
          IF ok
          THEN /\ calls' = [calls EXCEPT ![c].pc = "done", ![c].result = "bytes"]
               /\ \E small \in BOOLEAN : memoryCache' = (memoryCache \/ small)
               /\ \E written \in BOOLEAN : cacheDir' = (cacheDir \/ written)
          ELSE /\ calls' = [calls EXCEPT ![c] = OnError(@)]
               /\ UNCHANGED <<memoryCache, cacheDir>>
    /\ UNCHANGED <<imageLoadCircuitBreaker, now, openedAt, streak, rpc, sheet>>
    /\ UNCHANGED <<serverVars, otherVars>>

\* Promise.all over the layers, each awaited in its own try/catch (api.js
\* 568-584): a layer is its bytes, or null when getImage returned null or
\* rejected; the sprite sheet is composed of the layers that are not null
\* (api.js 336-351, 410-436).
I_compose ==
    /\ rpc = "load"
    /\ \A c \in LayerIds : calls[c].pc = "done"
    /\ sheet' = {c \in LayerIds : calls[c].result = "bytes"}
    /\ rpc' = "composed"
    /\ UNCHANGED <<imageLoadCircuitBreaker, now, openedAt, streak, calls, memoryCache, cacheDir>>
    /\ UNCHANGED <<serverVars, otherVars>>

\* Time passes.
I_tick ==
    /\ now + ClockStep <= MaxNow
    /\ now' = now + ClockStep
    /\ UNCHANGED <<imageLoadCircuitBreaker, openedAt, streak, calls, rpc, sheet, memoryCache, cacheDir>>
    /\ UNCHANGED <<serverVars, otherVars>>

\* memoryCache.clear() of checkMemoryUsage and of the cache clearing (api.js
\* 182, 939).
I_clearMemory ==
    /\ memoryCache' = FALSE
    /\ UNCHANGED <<imageLoadCircuitBreaker, now, openedAt, streak, calls, rpc, sheet, cacheDir>>
    /\ UNCHANGED <<serverVars, otherVars>>

\* The files of cache/ are unlinked (api.js 949-955).
I_clearDisk ==
    /\ cacheDir' = FALSE
    /\ UNCHANGED <<imageLoadCircuitBreaker, now, openedAt, streak, calls, rpc, sheet, memoryCache>>
    /\ UNCHANGED <<serverVars, otherVars>>

NextImage ==
    \/ I_load
    \/ \E c \in LayerIds : I_disk(c)
    \/ \E c \in LayerIds : I_fetch(c)
    \/ \E c \in LayerIds : I_decode(c)
    \/ I_compose
    \/ I_tick
    \/ I_clearMemory
    \/ I_clearDisk

InitImages ==
    /\ InitLock
    /\ user = NeverRendered
    /\ uploadModule = "reject"

SpecImage == InitImages /\ [][NextImage]_vars


\* ------------------------------------------------------------------------
\* The composition: createAvatarThumbnail, generateFullSpriteSheet and
\* generateDirectionalAvatar (api.js 256-695)

notCompose == <<serverVars, imageVars, admitVars, uploadVars, fileVars, hashVars, maskVars>>

\* getFacingOrder (api.js 259-331).
getFacingOrder(direction) ==
    IF direction = 0
    THEN <<"base", "tattoos", "makeup", "eyes", "eyebrows", "head", "nose", "mouth", "beard",
           "wings", "glasses", "hair_behind", "socks", "shoes_before", "gloves", "bottom", "belt",
           "shoes_after", "bracelets", "handheld", "top", "necklace", "coat", "neckwear",
           "hair_infront", "piercings", "earPiece", "hat", "horns", "bag">>
    ELSE IF direction \in {1, 4}
    THEN <<"base", "tattoos", "makeup", "eyes", "eyebrows", "head", "nose", "mouth", "beard",
           "glasses", "hair_behind", "socks", "shoes_before", "gloves", "bottom", "belt",
           "shoes_after", "bracelets", "handheld", "top", "necklace", "coat", "neckwear",
           "hair_infront", "piercings", "earPiece", "hat", "horns", "wings", "bag">>
    ELSE IF direction \in {2, 5}
    THEN <<"base", "tattoos", "makeup", "eyes", "eyebrows", "head", "nose", "mouth", "beard",
           "wings", "glasses", "socks", "shoes_before", "gloves", "bottom", "belt",
           "shoes_after", "bracelets", "handheld", "top", "necklace", "coat", "hair_behind",
           "piercings", "earPiece", "neckwear", "hair_infront", "hat", "horns", "bag">>
    ELSE <<"base", "tattoos", "makeup", "eyes", "eyebrows", "head", "nose", "mouth", "beard",
           "socks", "shoes_before", "gloves", "bottom", "belt", "shoes_after", "bracelets",
           "handheld", "piercings", "earPiece", "glasses", "horns", "top", "necklace", "coat",
           "hair_infront", "hair_behind", "hat", "neckwear", "wings", "bag">>

\* A variant of the special mappings that draws the shoes at shoes_after
\* whatever the flag.
LayerKey_shoesAfterAlways(layerName, shoesBehindPants, hairInfrontTop) ==
    IF layerName = "shoes_before" /\ ~shoesBehindPants THEN "shoes"
    ELSE IF layerName = "shoes_after" THEN "shoes"
    ELSE IF layerName = "hair_behind" /\ ~hairInfrontTop THEN "hair"
    ELSE IF layerName = "hair_infront" /\ hairInfrontTop THEN "hair"
    ELSE layerName

\* The key of `layers` a position of the order is drawn from (api.js 340-350);
\* the four special positions have no layer of their own name.
LayerKey(layerName, shoesBehindPants, hairInfrontTop) ==
    IF layerName = "shoes_before" /\ ~shoesBehindPants THEN "shoes"
    ELSE IF layerName = "shoes_after" /\ shoesBehindPants THEN "shoes"
    ELSE IF layerName = "hair_behind" /\ ~hairInfrontTop THEN "hair"
    ELSE IF layerName = "hair_infront" /\ hairInfrontTop THEN "hair"
    ELSE layerName

\* A variant of the loop that stops before the last position of the order.
compositeInputs_skipsLast(direction, layers, shoesBehindPants, hairInfrontTop) ==
    LET order == getFacingOrder(direction)
        keys  == [i \in 1..(Len(order) - 1) |-> LayerKey(order[i], shoesBehindPants, hairInfrontTop)]
    IN SelectSeq(keys, LAMBDA k : k \in layers)

\* compositeInputs of generateDirectionalAvatar (api.js 333-385): the layers
\* that have a buffer, in the order of the direction; sharp draws them in this
\* order, each over the ones before it.
compositeInputs(direction, layers, shoesBehindPants, hairInfrontTop) ==
    LET order == getFacingOrder(direction)
        keys  == [i \in 1..Len(order) |-> LayerKey(order[i], shoesBehindPants, hairInfrontTop)]
    IN SelectSeq(keys, LAMBDA k : k \in layers)

\* The positions of the order at which a buffer was found and pushed to
\* compositeInputs (api.js 337-352), by their names in the order.
compositedSlots(direction, layers, shoesBehindPants, hairInfrontTop) ==
    SelectSeq(getFacingOrder(direction),
              LAMBDA layerName : LayerKey(layerName, shoesBehindPants, hairInfrontTop) \in layers)

\* createAvatarThumbnail is called for a user whose customization names some
\* parts, of which some were loaded (api.js 510-584).
C_call ==
    /\ gen.pc = "idle"
    /\ \E type \in Types, refs \in SUBSET Parts, markX \in BOOLEAN, markS \in BOOLEAN :
          \E loaded \in SUBSET refs :
             gen' = [IdleGen EXCEPT !.pc = "pants", !.type = type, !.refs = refs, !.loaded = loaded,
                                    !.markX = ("bottom" \in refs /\ markX),
                                    !.markS = ("hair" \in refs /\ markS)]
    /\ UNCHANGED notCompose

\* Item.findById of the bottom item (api.js 590-601): asked only when the
\* customization has a bottom; a failed lookup leaves shoesBehindPants false.
C_pants ==
    /\ gen.pc = "pants"
    /\ \E found \in BOOLEAN :
          gen' = [gen EXCEPT !.pc = "hair",
                             !.shoesBehindPants = ("bottom" \in gen.refs /\ found /\ gen.markX)]
    /\ UNCHANGED notCompose

\* Item.findById of the hair item (api.js 603-614).
C_hair ==
    /\ gen.pc = "hair"
    /\ \E found \in BOOLEAN :
          gen' = [gen EXCEPT !.pc = "frames", !.direction = 0,
                             !.hairInfrontTop = ("hair" \in gen.refs /\ found /\ gen.markS)]
    /\ UNCHANGED notCompose

\* One turn of the loop of generateFullSpriteSheet (api.js 455-466): the frame
\* of the direction is composed.
C_frame ==
    /\ gen.pc = "frames"
    /\ gen.direction < 6
    /\ gen' = [gen EXCEPT !.direction = @ + 1,
                          !.frame = compositeInputs(gen.direction, gen.loaded \cup {"base"},
                                                    gen.shoesBehindPants, gen.hairInfrontTop)]
    /\ UNCHANGED notCompose

\* The front crop of the sheet, 425 x 850, is written to avatars/ and put in
\* avatarCache, and returned unless the type is sprite (api.js 623-641); for
\* sprite the 218 x 218 thumbnail is cut for the upload and the call ends in
\* the redirect (api.js 643-682).
C_crop ==
    /\ gen.pc = "frames"
    /\ gen.direction = 6
    /\ gen' = [gen EXCEPT !.pc = "done", !.cached = <<425, 850>>,
                          !.thumbnail = IF gen.type = "sprite" THEN <<218, 218>> ELSE <<>>,
                          !.body = IF gen.type = "sprite" THEN <<>> ELSE <<425, 850>>]
    /\ UNCHANGED notCompose

\* The call has returned.
C_return ==
    /\ gen.pc = "done"
    /\ gen' = IdleGen
    /\ UNCHANGED notCompose

NextCompose ==
    \/ C_call
    \/ C_pants
    \/ C_hair
    \/ C_frame
    \/ C_crop
    \/ C_return

SpecCompose == InitImages /\ [][NextCompose]_vars


\* ------------------------------------------------------------------------
\* Properties of the lock-based handler (SpecLock)

\* A createAvatarThumbnail call that has not returned yet.
Rendering(r) == render[r].rpc \in {"compose", "disk", "upload", "sign"}

\* C1: at most one createAvatarThumbnail render per (username, fingerprint) key
\* is executing at any time.
C1_SingleFlight ==
    \A r1, r2 \in Reqs :
        (r1 # r2 /\ Rendering(r1) /\ Rendering(r2)) => StoreKey(r1) # StoreKey(r2)

\* C5: a caller attached as a waiter is never left waiting for its own timer
\* after the generation it attached to has ended: as long as it waits, a holder
\* of its key is still generating.
C5_WaiterHasHolder ==
    \A i \in 1..Len(listeners) :
        req[listeners[i].w].pc = "wait" =>
            \E h \in Reqs : req[h].pc = "gen" /\ Fingerprint(req[h].cust) = listeners[i].key

\* C6: every getAvatar request that has finished has sent a response.
C6_Answered == \A r \in Reqs : req[r].pc = "done" => req[r].status # 0

\* C7: a 200 response from the memory tier (HIT) or the disk tier (DISK) carries
\* bytes rendered from the customization whose fingerprint the request computed.
C7_TierServesCurrent ==
    \A r \in Reqs :
        req[r].xcache \in {"HIT", "DISK"} =>
            /\ req[r].status = 200
            /\ req[r].bytes # 0
            /\ Fingerprint(req[r].bytes) = Fingerprint(req[r].cust)

\* C7 witness: a disk-tier hit for the current customization while the memory
\* tier or avatars/ also holds the avatar of another fingerprint of the user.
C7_Witness ==
    \E r \in Reqs :
        /\ req[r].xcache \in {"HIT", "DISK"}
        /\ \E h \in Hashes : h # Fingerprint(req[r].cust) /\ (avatarCache[h] # 0 \/ avatarsDir[h] # 0)

\* C8: a render with a failed remote upload does not modify the user record.
C8_FailedUploadKeepsRecord ==
    [][\A r \in Reqs :
          ((\E l \in Locs : render[r].up[l] \in {"fail", "null"}) /\ render'[r] # render[r])
              => user' = user]_vars

\* C9: once the holder has left the race through its timeout, its render writes
\* nothing more to the memory cache, avatars/, the object store or the user record.
C9_CancelledOnTimeout ==
    [][\A r \in Reqs :
          (Rendering(r) /\ req[r].pc # "gen" /\ render'[r] # render[r])
              => UNCHANGED <<avatarCache, avatarsDir, remote, user>>]_vars

\* C3: when the stored customizationHash is the fingerprint of the current
\* customization, the three remote objects were rendered from that customization.
C3_HashImpliesObjects ==
    user.customizationHash = Fingerprint(customization) =>
        \A l \in Locs : remote[l] = customization


\* createAvatarThumbnail of request r returns its buffer, or has redirected, in
\* this step with nothing of it failed: for avatar and thumbnail after the
\* avatar is stored (api.js 639-641), for sprite after the uploads, the update
\* of the user record and the signed URL (api.js 677-682).
RenderCompletes(r) ==
    /\ render'[r] = IdleRender
    /\ \/ render[r].rpc = "disk" /\ render[r].type # "sprite"
       \/ render[r].rpc = "sign"

\* C22: when a render for (username, fp) completes successfully, whatever the
\* requested type, the user record has customizationHash = fp and the memory
\* tier holds the avatar of fp, from which the next request is answered.
C22_RenderedIsRecorded ==
    [][\A r \in Reqs :
          RenderCompletes(r) =>
              /\ user'.customizationHash = StoreKey(r)
              /\ avatarCache'[StoreKey(r)] # 0]_vars

\* C26: a request that is answered by the validation, for its type or its
\* username, is answered 400, and nothing else has changed: no lock, no
\* render, no cache entry, no record.
C26_InvalidIs400 ==
    [][\A r \in Reqs :
          (req[r].pc = "idle" /\ req'[r].pc = "done") =>
              /\ req'[r].status = 400
              /\ UNCHANGED <<generationLocks, listeners, timers, render>>
              /\ UNCHANGED dataVars]_vars

\* ------------------------------------------------------------------------
\* Properties of the queue-based handler (SpecQueue)

\* C2: at most one job per (username, hash) key is executing processJob.
C2_OneJobPerKey ==
    \A j1, j2 \in JobIds :
        (j1 # j2 /\ jobs[j1].st = "running" /\ jobs[j2].st = "running")
            => JobKey(jobs, j1) # JobKey(jobs, j2)

\* C4: workers is the number of jobs executing processJob, and never exceeds
\* the configured concurrency.
C4_WorkersBounded ==
    /\ workers = Cardinality({j \in JobIds : jobs[j].st = "running"})
    /\ workers <= concurrency

\* C4 witness: clear() has emptied processing while a job was running; every
\* worker is busy and a job added since waits in the queue.
C4_Witness ==
    /\ workers = concurrency
    /\ queue # <<>>
    /\ \A h \in Hashes : processing[h] = 0

\* C10: an accepted job that is neither queued, running nor waiting for its
\* retry has had exactly one terminal notification.
C10_TerminalOnce ==
    \A j \in JobIds :
        jobs[j].st \in {"ended", "dropped"} => jobs[j].term = 1

\* A request of this type finds a job in progress for its key while the user
\* record names a render of another fingerprint and the object of the type exists.
PreviousWhileInProgress(type) ==
    /\ Fingerprint(customization) \in jobsInProgress
    /\ Branch(type) = "inprogress"
    /\ user.customizationHash # 0
    /\ user.customizationHash # Fingerprint(customization)
    /\ remote[LocOf(type)] # 0

C20_CapacityFallback ==
    \A type \in Types :
        (Priority(type) <= MaxPriority /\ Branch(type) = "add"
            /\ AddStatus(Fingerprint(customization)) = "capacity") =>
            /\ Response(type) = IF remote[LocOf(type)] # 0 THEN Redirect(type) ELSE Default
            /\ Added(type, customization) = QS

\* ------------------------------------------------------------------------
\* Properties of InMemoryQueue (SpecJobs)

\* The order of the types: thumbnail > avatar > sprite.
Rank(type) ==
    CASE type = "thumbnail" -> 2
      [] type = "avatar"    -> 1
      [] OTHER              -> 0

\* Job j is moved from the queue to Running by this step.
Starts(j) == jobs[j].st # "running" /\ jobs'[j].st = "running"

\* C11: when processNext starts a job, no job still waiting in the queue has a
\* strictly higher priority, with thumbnail > avatar > sprite.
C11_HighestFirst ==
    [][\A j \in JobIds :
          Starts(j) => \A i \in 1..Len(queue') :
                          Rank(jobs'[queue'[i]].type) <= Rank(jobs'[j].type)]_vars

\* C12: among waiting jobs of equal priority, the job add accepted earlier
\* starts first.  Job objects are numbered in the order add accepted them; the
\* two jobs compared have the same type, hence the same priority.
C12_FifoWithinTier ==
    [][\A j \in JobIds :
          Starts(j) => \A i \in 1..Len(queue') :
                          jobs'[queue'[i]].type = jobs'[j].type => j < queue'[i]]_vars

\* C13: the queue never holds more than maxQueueSize jobs.
C13_QueueBounded == Len(queue) <= maxQueueSize

\* C14: when the queue holds maxQueueSize jobs or more, add fails with the
\* capacity error for every type and key, and leaves queue, processing, workers
\* and the job objects as they were: no job is created, so no job-added.
C14_CapacityRejects ==
    Len(queue) >= maxQueueSize =>
        \A t \in Types, c \in Custs :
            /\ AddStatus(Fingerprint(c)) = "capacity"
            /\ Added(t, c) = QS

\* C14 witness: the queue is at capacity while a job object is unused and a key
\* is not in processing: the add is refused for its capacity alone.
C14_Witness ==
    /\ Len(queue) >= maxQueueSize
    /\ \E j \in JobIds : jobs[j].st = "free"
    /\ \E c \in Custs : processing[Fingerprint(c)] = 0

\* C15: with the three attempts of avatarQueue, a job is executed at most three
\* times; its first failure re-queues it after 2000 ms and its second after
\* 4000 ms, neither counted as failed; the failure of its third execution is
\* counted as failed and ends the job, and an ended job never starts again.
C15_ThreeAttempts ==
    [][\A j \in JobIds :
          /\ jobs'[j].runs <= 3
          /\ (jobs[j].st # "retry" /\ jobs'[j].st = "retry") =>
                 /\ jobs[j].st = "running"
                 /\ failed' = failed
                 /\ \/ jobs[j].runs = 1 /\ jobs'[j].delay = 2000
                    \/ jobs[j].runs = 2 /\ jobs'[j].delay = 4000
          /\ (jobs[j].st = "running" /\ jobs[j].runs = 3 /\ jobs'[j].st # "running") =>
                 jobs'[j].st = "ended"
          /\ (jobs[j].st = "running" /\ jobs'[j].st = "ended" /\ failed' = failed + 1) =>
                 jobs[j].runs = 3
          /\ jobs[j].st = "ended" => jobs'[j].st = "ended"]_vars

\* C15 witness: one job has failed three times and been counted as failed,
\* while another waits for its second retry.
C15_Witness ==
    /\ failed > 0
    /\ \E j \in JobIds : jobs[j].st = "retry" /\ jobs[j].runs = 2 /\ jobs[j].delay = 4000

\* ------------------------------------------------------------------------
\* Properties of CircuitBreaker and getImage (SpecImage)

\* The wrapped call of layer c resolves, or throws after its last retry, in
\* this step.
Succeeds(c) == calls[c].pc = "fn" /\ calls'[c].pc = "decode"

Fails(c) == calls[c].pc = "fn" /\ calls'[c].pc = "done"

InFlight == {c \in LayerIds : calls[c].pc = "fn"}

\* C16: the breaker goes from CLOSED to OPEN only with the failure that makes
\* threshold (5) failed calls in a row, it does go to OPEN with that failure,
\* and every call that succeeds sets failures to 0.
C16_OpensAtThreshold ==
    [][/\ (imageLoadCircuitBreaker.state = "CLOSED" /\ imageLoadCircuitBreaker'.state = "OPEN") =>
              (streak' = 5 /\ \E c \in LayerIds : Fails(c))
       /\ (imageLoadCircuitBreaker.state = "CLOSED" /\ streak' > streak /\ streak' >= 5) =>
              imageLoadCircuitBreaker'.state = "OPEN"
       /\ (\E c \in LayerIds : Succeeds(c)) => imageLoadCircuitBreaker'.failures = 0]_vars

\* C16 witness: the breaker is OPEN, opened by the fifth failure in a row.
C16_Witness ==
    /\ imageLoadCircuitBreaker.state = "OPEN"
    /\ streak = 5
    /\ imageLoadCircuitBreaker.failures = 5

\* C17: for 60 s after the breaker entered OPEN it stays OPEN, and no execute
\* call is passed on to the wrapped function.
C17_OpenForTimeout ==
    [][(imageLoadCircuitBreaker.state = "OPEN" /\ now < openedAt + 60000) =>
           /\ imageLoadCircuitBreaker'.state = "OPEN"
           /\ \A c \in LayerIds : calls[c].pc = "disk" => calls'[c].pc # "fn"]_vars

\* C18: while the breaker is HALF_OPEN at most one wrapped call is in flight
\* among those execute passed on since the breaker opened.
C18_SingleProbe ==
    imageLoadCircuitBreaker.state = "HALF_OPEN" =>
        Cardinality({c \in InFlight : calls[c].via # "CLOSED"}) <= 1

\* C19: getImage never rejects; it resolves to null for a missing item, for a
\* fetch that the OPEN breaker refuses, for a fetch that failed after its last
\* retry and, being null or bytes whenever it is done, for a decode failure; and the render that awaits the layers is
\* composed, of exactly the layers whose getImage resolved to bytes.
C19_GetImageResolves ==
    [][/\ \A c \in LayerIds :
             /\ calls'[c].pc = "done" => calls'[c].result \in {"null", "bytes"}
             /\ (calls'[c].pc # "idle" /\ calls'[c].item = 0) =>
                    (calls'[c].pc = "done" /\ calls'[c].result = "null")
             /\ (calls[c].pc = "disk" /\ ~cacheDir /\ Rejects(imageLoadCircuitBreaker)
                   /\ calls'[c] # calls[c]) =>
                    (calls'[c].pc = "done" /\ calls'[c].result = "null")
             /\ Fails(c) => (calls[c].i = 2 /\ calls'[c].result = "null")
       /\ (rpc = "load" /\ rpc' # "load") =>
             /\ rpc' = "composed"
             /\ sheet' = {c \in LayerIds : calls[c].item # 0 /\ calls[c].result = "bytes"}]_vars

\* C19 witness: a render has been composed of one loaded layer; of its other
\* layers one has no item, and the fetch of one was refused or failed.
C19_Witness ==
    /\ rpc = "composed"
    /\ Cardinality(sheet) = 1
    /\ \E c \in LayerIds : calls[c].item = 0
    /\ \E c \in LayerIds : calls[c].item # 0 /\ calls[c].result = "null"

\* C23: the layers composited by a completed render are determined by the
\* customization alone: every layer that has an item is in the sheet, whatever
\* the part fetches and the breaker did.
C23_SheetDeterminedByItems ==
    rpc = "composed" => sheet = {c \in LayerIds : calls[c].item # 0}

\* ------------------------------------------------------------------------
\* Properties of the composition (SpecCompose)

\* The place of a layer among the composited layers of the frame.
Pos(frame, layer) == CHOOSE i \in 1..Len(frame) : frame[i] = layer

\* C24: in the frame of every direction in which bottom and shoes are both
\* composited, bottom comes after (above) shoes when the description of the
\* bottom item contains '!x', and shoes after (above) bottom when it does not.
C24_BottomOverShoes ==
    (gen.pc = "frames" /\ gen.direction > 0 /\ {"bottom", "shoes"} \subseteq gen.loaded) =>
        IF gen.markX
        THEN Pos(gen.frame, "bottom") > Pos(gen.frame, "shoes")
        ELSE Pos(gen.frame, "shoes") > Pos(gen.frame, "bottom")

\* C25: a thumbnail request answered with rendered bytes gets the 218 x 218
\* thumbnail raster, from the render as from the memory tier.
C25_ThumbnailRaster ==
    (gen.pc = "done" /\ gen.type = "thumbnail") =>
        (gen.body = <<218, 218>> /\ gen.cached = <<218, 218>>)

\* C27: when clearAllCaches has run (its queue step ends the clearing), no job
\* of the queue is left running or waiting for its retry timer, so nothing
\* submitted before the clear starts or writes afterwards.
C27_ClearCancelsJobs ==
    [][(clearing /\ ~clearing') =>
          \A j \in JobIds : jobs'[j].st \notin {"running", "retry"}]_vars


\* ------------------------------------------------------------------------
\* Admission: queuedGetAvatar and processRequestQueue (api.js 851-892), with
\* the getAvatar promises they wait on (api.js 698-848)

notAdmit == <<serverVars, imageVars, composeVars, uploadVars, fileVars, hashVars, maskVars>>

Admission == [requestQueue |-> requestQueue, activeRequests |-> activeRequests, handlers |-> handlers]

SetAdmission(a) ==
    /\ requestQueue' = a.requestQueue
    /\ activeRequests' = a.activeRequests
    /\ handlers' = a.handlers

\* `${req.params.username}-${Date.now()}` (api.js 854, 877).
RequestId(username) == <<username, dateNow>>

\* processRequestQueue (api.js 851-869): while a request waits and
\* activeRequests.size is below the limit, shift it, add its requestId and call
\* its handler.  The loop is synchronous.
RECURSIVE processRequestQueue(_)
processRequestQueue(a) ==
    IF a.requestQueue = <<>> \/ Cardinality(a.activeRequests) >= MAX_CONCURRENT_REQUESTS
    THEN a
    ELSE LET r == Head(a.requestQueue)
             requestId == RequestId(a.handlers[r].username)
         IN processRequestQueue(
                [requestQueue |-> Tail(a.requestQueue),
                 activeRequests |-> a.activeRequests \cup {requestId},
                 handlers |-> [a.handlers EXCEPT ![r].pc = "start", ![r].requestId = requestId]])

\* queuedGetAvatar (api.js 871-892) for the next request to arrive.
queuedGetAvatar(r, username) ==
    /\ handlers[r].pc = "new"
    /\ \A s \in Arrivals : s < r => handlers[s].pc # "new"
    /\ IF Cardinality(activeRequests) >= MAX_CONCURRENT_REQUESTS
       THEN SetAdmission(processRequestQueue(
                [requestQueue |-> Append(requestQueue, r),
                 activeRequests |-> activeRequests,
                 handlers |-> [handlers EXCEPT ![r] = [pc |-> "queued", username |-> username,
                                                      type |-> "", requestId |-> <<>>]]]))
       ELSE /\ activeRequests' = activeRequests \cup {RequestId(username)}
            /\ handlers' = [handlers EXCEPT ![r] = [pc |-> "start", username |-> username,
                                                    type |-> "", requestId |-> RequestId(username)]]
            /\ UNCHANGED requestQueue
    /\ UNCHANGED <<dateNow, admitLocks>>
    /\ UNCHANGED notAdmit

\* getAvatar up to its lock (api.js 698-806), type being req.params.type.  It
\* answers by itself (400, 404, a tier, an error) and its promise settles; or
\* the key is locked and it returns the promise of the waiter path, its finally
\* block (842-847) deleting the lock on the way out; or it sets the lock and
\* starts the render.  The type is kept for the listener of a waiter only.
A_getAvatar(r, type, direct) ==
    /\ handlers[r].pc = "start"
    /\ IF direct
       THEN /\ handlers' = [handlers EXCEPT ![r].pc = "settled"]
            /\ UNCHANGED admitLocks
       ELSE IF handlers[r].username \in admitLocks
            THEN /\ handlers' = [handlers EXCEPT ![r].pc = "waiting", ![r].type = type]
                 /\ admitLocks' = admitLocks \ {handlers[r].username}
            ELSE /\ handlers' = [handlers EXCEPT ![r].pc = "holding"]
                 /\ admitLocks' = admitLocks \cup {handlers[r].username}
    /\ UNCHANGED <<requestQueue, activeRequests, dateNow>>
    /\ UNCHANGED notAdmit

\* The listener of a waiter (api.js 787-801) called with (error, result).
Heard(h, ok) ==
    IF ok /\ h.type = "sprite"
    THEN [h EXCEPT !.pc = "signing"]
    ELSE [h EXCEPT !.pc = "settled", !.type = ""]

\* The race of the holder ends (api.js 809-847): on success it emits the
\* result; on failure it emits the error if the lock is still there; then the
\* response, the finally block, and the promise of getAvatar settles.
A_generated(r, ok) ==
    /\ handlers[r].pc = "holding"
    /\ LET emits == ok \/ handlers[r].username \in admitLocks
       IN handlers' = [s \in Arrivals |->
              IF s = r THEN [handlers[s] EXCEPT !.pc = "settled"]
              ELSE IF emits /\ handlers[s].pc = "waiting" /\ handlers[s].username = handlers[r].username
                   THEN Heard(handlers[s], ok)
                   ELSE handlers[s]]
    /\ admitLocks' = admitLocks \ {handlers[r].username}
    /\ UNCHANGED <<requestQueue, activeRequests, dateNow>>
    /\ UNCHANGED notAdmit

\* s3.getSignedUrlPromise of a sprite waiter settles (api.js 793-796): then
\* redirects and neither resolve nor reject is called; catch rejects.
A_signed(r, ok) ==
    /\ handlers[r].pc = "signing"
    /\ handlers' = [handlers EXCEPT ![r].pc = IF ok THEN "answered" ELSE "settled", ![r].type = ""]
    /\ UNCHANGED <<requestQueue, activeRequests, dateNow, admitLocks>>
    /\ UNCHANGED notAdmit

\* The GENERATION_TIMEOUT timer of a waiter fires (api.js 783-785); the
\* listener clears it when it is called.
A_timeout(r) ==
    /\ handlers[r].pc = "waiting"
    /\ handlers' = [handlers EXCEPT ![r].pc = "settled", ![r].type = ""]
    /\ UNCHANGED <<requestQueue, activeRequests, dateNow, admitLocks>>
    /\ UNCHANGED notAdmit

\* .finally of a settled handler (api.js 865-868, 887-890):
\* activeRequests.delete(requestId), then processRequestQueue().
A_finally(r) ==
    /\ handlers[r].pc = "settled"
    /\ SetAdmission(processRequestQueue(
           [requestQueue |-> requestQueue,
            activeRequests |-> activeRequests \ {handlers[r].requestId},
            handlers |-> [handlers EXCEPT ![r] = ClosedHandler]]))
    /\ UNCHANGED <<dateNow, admitLocks>>
    /\ UNCHANGED notAdmit

\* A millisecond passes.
A_tick ==
    /\ dateNow < MaxMs
    /\ dateNow' = dateNow + 1
    /\ UNCHANGED <<requestQueue, activeRequests, handlers, admitLocks>>
    /\ UNCHANGED notAdmit

NextAdmit ==
    \/ \E r \in Arrivals, u \in Usernames : queuedGetAvatar(r, u)
    \/ \E r \in Arrivals, t \in AdmitTypes, direct \in BOOLEAN : A_getAvatar(r, t, direct)
    \/ \E r \in Arrivals, ok \in BOOLEAN : A_generated(r, ok)
    \/ \E r \in Arrivals, ok \in BOOLEAN : A_signed(r, ok)
    \/ \E r \in Arrivals : A_timeout(r)
    \/ \E r \in Arrivals : A_finally(r)
    \/ A_tick

SpecAdmit == InitImages /\ [][NextAdmit]_vars

\* The handlers whose getAvatar call has not settled and has not answered.
RunningHandlers == {r \in Arrivals : handlers[r].pc \in {"start", "holding", "waiting", "signing"}}

\* C28: at most MAX_CONCURRENT_REQUESTS handlers admitted through
\* queuedGetAvatar and processRequestQueue run at once.
C28_AtMostThreeRun ==
    Cardinality(RunningHandlers) <= MAX_CONCURRENT_REQUESTS

\* The event loop runs every continuation that is ready, the render of a
\* holder ends (its race has a timer), S3 answers, and an armed timer fires:
\* each step of an admitted handler is taken once it stays possible.  Arrivals
\* and the clock are not forced.
FairAdmit ==
    /\ WF_vars(\E r \in Arrivals, t \in AdmitTypes, direct \in BOOLEAN : A_getAvatar(r, t, direct))
    /\ WF_vars(\E r \in Arrivals, ok \in BOOLEAN : A_generated(r, ok))
    /\ WF_vars(\E r \in Arrivals, ok \in BOOLEAN : A_signed(r, ok))
    /\ WF_vars(\E r \in Arrivals : A_timeout(r))
    /\ WF_vars(\E r \in Arrivals : A_finally(r))

SpecAdmitFair == InitImages /\ [][NextAdmit]_vars /\ FairAdmit

\* C29: every request admitted to activeRequests (its handler was called) is
\* eventually removed from it (the .finally of its handler has run).
C29_AdmittedIsRemoved ==
    \A r \in Arrivals : (handlers[r].pc = "start") ~> (handlers[r].pc = "closed")


\* ------------------------------------------------------------------------
\* uploadImage (uploadContent.js 25-69, part_006 22-88) and the Space

notUpload == <<serverVars, imageVars, composeVars, admitVars, fileVars, hashVars, maskVars>>

\* uploadImage is called with the recorded key as previousMedia
\* (api.js 649-660).  A file over maxSize returns null at once; otherwise the
\* deletion of previousMedia is sent without being awaited and sharp starts.
U_call(named, large) ==
    /\ upload.pc \in {"idle", "done"}
    /\ upload.n < MaxUploads
    /\ IF large
       THEN /\ upload' = [upload EXCEPT !.pc = "done", !.previousMedia = upload.recorded,
                                        !.Key = NoKey, !.n = @ + 1, !.outcome = "null"]
            /\ UNCHANGED deleting
       ELSE /\ upload' = [upload EXCEPT !.pc = "sharp", !.previousMedia = upload.recorded,
                                        !.Key = IF named THEN NamedKey ELSE upload.n + 1,
                                        !.n = @ + 1, !.outcome = ""]
            /\ deleting' = IF upload.recorded = NoKey THEN deleting
                           ELSE [deleting EXCEPT ![upload.recorded] = @ + 1]
    /\ UNCHANGED bucket
    /\ UNCHANGED notUpload

\* What a failed call hands back: uploadContent.js rejects (65-67), the other
\* module returns null (part_006 56-61, 77-82).
Failed(u) == [u EXCEPT !.pc = "done", !.outcome = IF uploadModule = "reject" THEN "rejected" ELSE "null"]

\* sharp(...).toBuffer() settles (uploadContent.js 44-53, part_006 53-61).
U_sharp(ok) ==
    /\ upload.pc = "sharp"
    /\ upload' = IF ok THEN [upload EXCEPT !.pc = "upload"] ELSE Failed(upload)
    /\ UNCHANGED <<bucket, deleting>>
    /\ UNCHANGED notUpload

\* s3.upload(...).promise() settles (uploadContent.js 55-62, part_006 64-77):
\* the object is written under Key and Key is returned, which the caller
\* records.
U_upload(ok) ==
    /\ upload.pc = "upload"
    /\ IF ok
       THEN /\ bucket' = [bucket EXCEPT ![upload.Key] = upload.n]
            /\ upload' = [upload EXCEPT !.pc = "done", !.outcome = "key", !.recorded = upload.Key]
       ELSE /\ upload' = Failed(upload)
            /\ UNCHANGED bucket
    /\ UNCHANGED deleting
    /\ UNCHANGED notUpload

\* The Space carries out a deleteObject request it was sent
\* (uploadContent.js 36-41, part_006 45-50).
S3_delete(k) ==
    /\ deleting[k] > 0
    /\ deleting' = [deleting EXCEPT ![k] = @ - 1]
    /\ bucket' = [bucket EXCEPT ![k] = 0]
    /\ UNCHANGED upload
    /\ UNCHANGED notUpload

NextUpload ==
    \/ \E named \in BOOLEAN, large \in BOOLEAN : U_call(named, large)
    \/ \E ok \in BOOLEAN : U_sharp(ok)
    \/ \E ok \in BOOLEAN : U_upload(ok)
    \/ \E k \in Keys : S3_delete(k)

InitUpload ==
    /\ InitLock
    /\ user = NeverRendered

SpecUpload == InitUpload /\ [][NextUpload]_vars

\* C30: after uploadImage has returned a key to a caller whose previous key is
\* the same key, the object exists under that key.
C30_NewObjectSurvives ==
    (upload.pc = "done" /\ upload.outcome = "key" /\ upload.previousMedia = upload.Key) =>
        bucket[upload.Key] # 0


\* ------------------------------------------------------------------------
\* The avatar file on disk: fs.writeFile of createAvatarThumbnail
\* (api.js 629-633) and fs.readFile of getAvatar (api.js 766-778)

notFile == <<serverVars, imageVars, composeVars, admitVars, uploadVars, hashVars, maskVars>>

\* fs.writeFile opens the file with flag 'w': it is created or truncated.  A
\* failure is caught and logged (api.js 631-633).
F_open(w, ok) ==
    /\ fsWrite[w].pc = "idle"
    /\ IF ok
       THEN /\ fsWrite' = [fsWrite EXCEPT ![w].pc = "writing"]
            /\ avatarFile' = [exists |-> TRUE, chunks |-> {}]
       ELSE /\ fsWrite' = [fsWrite EXCEPT ![w].pc = "done"]
            /\ UNCHANGED avatarFile
    /\ UNCHANGED fsRead
    /\ UNCHANGED notFile

\* fs.writeFile writes the next chunk of the buffer at its offset.
F_write(w) ==
    /\ fsWrite[w].pc = "writing"
    /\ fsWrite[w].written < FileChunks
    /\ fsWrite' = [fsWrite EXCEPT ![w].written = @ + 1]
    /\ avatarFile' = [avatarFile EXCEPT !.chunks = @ \cup {fsWrite[w].written + 1}]
    /\ UNCHANGED fsRead
    /\ UNCHANGED notFile

\* fs.writeFile closes the file and its promise resolves.
F_close(w) ==
    /\ fsWrite[w].pc = "writing"
    /\ fsWrite[w].written = FileChunks
    /\ fsWrite' = [fsWrite EXCEPT ![w] = [pc |-> "done", written |-> 0]]
    /\ UNCHANGED <<avatarFile, fsRead>>
    /\ UNCHANGED notFile

\* fs.readFile(avatarPath) of the disk tier (api.js 766-778): ENOENT is caught
\* and the request goes on to generation; otherwise the bytes found are put in
\* avatarCache and sent with X-Cache: DISK.
F_read(r) ==
    /\ fsRead[r].pc = "idle"
    /\ fsRead' = [fsRead EXCEPT ![r] =
                     IF avatarFile.exists
                     THEN [pc |-> "done", error |-> "", chunks |-> avatarFile.chunks]
                     ELSE [pc |-> "done", error |-> "ENOENT", chunks |-> {}]]
    /\ UNCHANGED <<avatarFile, fsWrite>>
    /\ UNCHANGED notFile

NextFile ==
    \/ \E w \in Writers, ok \in BOOLEAN : F_open(w, ok)
    \/ \E w \in Writers : F_write(w)
    \/ \E w \in Writers : F_close(w)
    \/ \E r \in Readers : F_read(r)

SpecFile == InitImages /\ [][NextFile]_vars

\* C31: a request that reads the avatar file while a render writes it finds no
\* file or the complete avatar bytes.
C31_NoPartialRead ==
    \A r \in Readers :
        fsRead[r].pc = "done" => (fsRead[r].error = "ENOENT" \/ fsRead[r].chunks = Chunks)

\* C32: when the user record is updated with a fingerprint, the avatar file of
\* that fingerprint is already on local disk and the three remote objects
\* were already written from the customization of that fingerprint.
C32_DiskThenRemoteThenRecord ==
    [][user' # user =>
          /\ avatarsDir[user'.customizationHash] # 0
          /\ \A l \in Locs : remote[l] # 0 /\ Fingerprint(remote[l]) = user'.customizationHash]_vars

\* C33: when processJob has re-read the user and the fingerprint of the record
\* differs from the hash of the job, the job renders, uploads and updates
\* nothing: it ends at once, counted as completed, and its jobsInProgress
\* entry is removed.
C33_MismatchSkips ==
    [][\A j \in JobIds :
          (J_Found(j, TRUE) /\ Fingerprint(customization) # Fingerprint(jobs[j].cust)) =>
              /\ UNCHANGED <<user, remote, avatarCache, avatarsDir>>
              /\ jobs'[j].st = "ended"
              /\ completed' = completed + 1
              /\ failed' = failed
              /\ JobKey(jobs, j) \notin jobsInProgress']_vars

\* A job was counted as completed although nothing was ever rendered for the
\* user: it was skipped.
C33_Witness ==
    /\ completed > 0
    /\ user = NeverRendered
    /\ \A l \in Locs : remote[l] = 0

\* The breaker's state agrees with its count: CLOSED below the threshold, OPEN
\* and HALF_OPEN at or above it.
StateMatchesCount(b) ==
    /\ b.state = "CLOSED" => b.failures < threshold
    /\ b.state \in {"OPEN", "HALF_OPEN"} => b.failures >= threshold

\* C34: in every state of the breaker, whatever the interleaving of the
\* execute calls, CLOSED goes with failures < threshold and OPEN and HALF_OPEN
\* with failures >= threshold; and a wrapped call that fails while the breaker
\* is HALF_OPEN puts it back to OPEN.
C34_StateMatchesCount ==
    [][/\ StateMatchesCount(imageLoadCircuitBreaker)
       /\ StateMatchesCount(imageLoadCircuitBreaker')
       /\ (imageLoadCircuitBreaker.state = "HALF_OPEN" /\ \E c \in LayerIds : Fails(c)) =>
              imageLoadCircuitBreaker'.state = "OPEN"]_vars

\* C34 witness: the breaker is HALF_OPEN while two wrapped calls are in flight.
C34_Witness ==
    /\ imageLoadCircuitBreaker.state = "HALF_OPEN"
    /\ imageLoadCircuitBreaker.failures >= threshold
    /\ Cardinality(InFlight) >= 2

\* The elements of a sequence, and how often x is one of them.
Range(seq) == {seq[i] : i \in 1..Len(seq)}
Count(seq, x) == Cardinality({i \in 1..Len(seq) : seq[i] = x})

AllLayers ==
    {"base", "tattoos", "makeup", "hair", "beard", "eyes", "eyebrows", "head", "nose", "mouth",
     "hat", "piercings", "earPiece", "glasses", "horns", "top", "necklace", "neckwear", "coat",
     "belt", "bottom", "socks", "shoes", "bracelets", "wings", "bag", "gloves", "handheld"}

\* The names an order is made of: every layer but shoes and hair, which have
\* two positions each.
OrderSlots ==
    (AllLayers \ {"shoes", "hair"}) \cup {"shoes_before", "shoes_after", "hair_behind", "hair_infront"}

notHash == <<serverVars, imageVars, composeVars, admitVars, uploadVars, fileVars, maskVars>>

\* The customizations a record can hold: some of the slots, in any order.
SlotSet == {SlotKeys[i] : i \in 1..Len(SlotKeys)}
Customizations ==
    {c \in UNION {[1..n -> SlotSet \X Values] : n \in 0..Len(SlotKeys)} :
        \A i, j \in 1..Len(c) : i # j => c[i][1] # c[j][1]}

\* JSON.stringify of the customization: the properties in the order of the
\* object, "key":value for an item or null, nothing for undefined.  The string
\* is kept as the sequence of the pairs it spells out.
JSONstringify(c) == SelectSeq(c, LAMBDA p : p[2] # Undefined)

\* The item a customization gives to a slot, Null for none.
ItemOf(c, key) ==
    IF \E i \in 1..Len(c) : c[i][1] = key /\ c[i][2] \in 1..MaxItem
    THEN c[CHOOSE i \in 1..Len(c) : c[i][1] = key][2]
    ELSE Null

\* getAvatar reads the user (api.js 722-730), for two records.
H_read ==
    /\ hashing.pc = "idle"
    /\ \E a \in Customizations, b \in Customizations :
          hashing' = [IdleHashing EXCEPT !.pc = "read", !.a = a, !.b = b]
    /\ UNCHANGED notHash

\* The string that is hashed (api.js 737-741).
H_hash ==
    /\ hashing.pc = "read"
    /\ hashing' = [hashing EXCEPT !.pc = "hashed", !.sa = JSONstringify(hashing.a),
                                  !.sb = JSONstringify(hashing.b)]
    /\ UNCHANGED notHash

\* The requests have been answered.
H_done ==
    /\ hashing.pc = "hashed"
    /\ hashing' = IdleHashing
    /\ UNCHANGED notHash

NextHash ==
    \/ H_read
    \/ H_hash
    \/ H_done

SpecHash == InitImages /\ [][NextHash]_vars

\* C37: two customizations that give the same item, or none, to every slot
\* are hashed from the same string, whatever the order of their properties and
\* whether an empty slot is absent, null or undefined.
C37_CanonicalSerialization ==
    (hashing.pc = "hashed" /\ \A key \in SlotSet : ItemOf(hashing.a, key) = ItemOf(hashing.b, key)) =>
        hashing.sa = hashing.sb


\* ------------------------------------------------------------------------
\* The chroma-key mask: processWithWorkers (imageProcessor.js 69-132) and the
\* worker's message handler (imageWorker.js 9-60)

notMask == <<serverVars, imageVars, composeVars, admitVars, uploadVars, fileVars, hashVars>>

\* The RGBA pixels the image data is made of: the key colour and another
\* colour, each opaque and transparent.
Pixels == {<<0, 255, 0, 255>>, <<255, 0, 255, 255>>, <<0, 255, 0, 0>>, <<255, 0, 255, 0>>}

RECURSIVE Flatten(_)
Flatten(pixels) == IF pixels = <<>> THEN <<>> ELSE Head(pixels) \o Flatten(Tail(pixels))

\* The Uint8ClampedArray data of an image of NPixels pixels.
Buffers == {Flatten(px) : px \in [1..NPixels -> Pixels]}

\* view[i] of a typed array, i counted from 0: undefined past the end.
At(view, i) == IF i < Len(view) THEN view[i + 1] ELSE Undefined

\* view[i] = v: nothing is written past the end.
Put(view, i, v) == IF i < Len(view) THEN [view EXCEPT ![i + 1] = v] ELSE view

\* isColorSimilar with the target and the tolerances that processWithWorkers
\* posts (imageWorker.js 3-7, imageProcessor.js 112-117).
isColorSimilar(r, g, b) ==
    /\ r >= targetR - toleranceR /\ r <= targetR + toleranceR
    /\ g >= targetG - toleranceG /\ g <= targetG + toleranceG
    /\ b >= targetB - toleranceB /\ b <= targetB + toleranceB

\* A variant of the loop body that clears the first byte of the pixel instead
\* of its alpha.
Step_clearsRed(resultView, maskView, useMask, i) ==
    IF useMask /\ maskView # <<>>
    THEN IF At(maskView, i + 3) = 255
            /\ isColorSimilar(At(maskView, i), At(maskView, i + 1), At(maskView, i + 2))
         THEN Put(resultView, i, 0)
         ELSE resultView
    ELSE IF At(resultView, i + 3) = 255
            /\ isColorSimilar(At(resultView, i), At(resultView, i + 1), At(resultView, i + 2))
         THEN Put(resultView, i, 0)
         ELSE resultView

\* One turn of the loop of the handler at offset i (imageWorker.js 26-39,
\* 41-56); maskView is <<>> for a null maskData.
Step(resultView, maskView, useMask, i) ==
    IF useMask /\ maskView # <<>>
    THEN IF At(maskView, i + 3) = 255
            /\ isColorSimilar(At(maskView, i), At(maskView, i + 1), At(maskView, i + 2))
         THEN Put(resultView, i + 3, 0)
         ELSE resultView
    ELSE IF At(resultView, i + 3) = 255
            /\ isColorSimilar(At(resultView, i), At(resultView, i + 1), At(resultView, i + 2))
         THEN Put(resultView, i + 3, 0)
         ELSE resultView

\* The handler's loop: for (let i = start; i < end; i += 4).
RECURSIVE Process(_, _, _, _, _)
Process(resultView, maskView, useMask, i, end) ==
    IF i >= end THEN resultView
    ELSE Process(Step(resultView, maskView, useMask, i), maskView, useMask, i + 4, end)

\* Math.ceil(sourceData.length / numWorkers), and the chunk of worker w
\* (imageProcessor.js 71, 90-91).
chunkSize(length, numWorkers) == (length + numWorkers - 1) \div numWorkers
start(w, length, numWorkers) == w * chunkSize(length, numWorkers)
Min(a, b) == IF a <= b THEN a ELSE b
end(w, length, numWorkers) == Min(start(w, length, numWorkers) + chunkSize(length, numWorkers), length)

\* processWithWorkers up to its await (imageProcessor.js 69-124): the source is
\* copied to sharedResult and every worker is posted its chunk.
M_call(sourceData, maskData, useMask, numWorkers) ==
    /\ maskCall.pc = "idle"
    /\ useMask = (maskData # <<>>)
    /\ maskCall' = [pc |-> "running", sourceData |-> sourceData, maskData |-> maskData,
                    useMask |-> useMask, numWorkers |-> numWorkers]
    /\ sharedResult' = sourceData
    /\ imageWorkers' = [w \in WorkerIds |-> IF w < numWorkers THEN "posted" ELSE "none"]
    /\ UNCHANGED notMask

\* The worker handles its message (imageWorker.js 9-60): it masks its chunk of
\* sharedResult and posts 'done'; it goes on listening on parentPort.
W_process(w) ==
    /\ imageWorkers[w] = "posted"
    /\ sharedResult' = Process(sharedResult, maskCall.maskData, maskCall.useMask,
                               start(w, Len(sharedResult), maskCall.numWorkers),
                               end(w, Len(sharedResult), maskCall.numWorkers))
    /\ imageWorkers' = [imageWorkers EXCEPT ![w] = "done"]
    /\ UNCHANGED maskCall
    /\ UNCHANGED notMask

\* The worker fails before it handles its message (its module does not load,
\* the thread cannot be started): 'error' rejects its promise
\* (imageProcessor.js 98), and the thread exits.
W_error(w) ==
    /\ imageWorkers[w] = "posted"
    /\ imageWorkers' = [imageWorkers EXCEPT ![w] = "failed"]
    /\ UNCHANGED <<maskCall, sharedResult>>
    /\ UNCHANGED notMask

\* A worker's promise: rejected by 'error', resolved by 'exit'
\* (imageProcessor.js 97-104).  Nothing listens for the 'done' message, and a
\* worker that has handled its message goes on listening: no step of a worker
\* leads to a clean exit.
Rejected(w) == imageWorkers[w] = "failed"
Resolved(w) == imageWorkers[w] = "exited"

\* await Promise.all(promises) settles (imageProcessor.js 124-131): with all
\* promises resolved the workers are terminated and resultView is returned;
\* with one rejected the call rejects and no worker is terminated.
M_settle ==
    /\ maskCall.pc = "running"
    /\ IF \E w \in WorkerIds : w < maskCall.numWorkers /\ Rejected(w)
       THEN /\ maskCall' = [maskCall EXCEPT !.pc = "rejected"]
            /\ UNCHANGED imageWorkers
       ELSE /\ \A w \in WorkerIds : w < maskCall.numWorkers => Resolved(w)
            /\ maskCall' = [maskCall EXCEPT !.pc = "resolved"]
            /\ imageWorkers' = [w \in WorkerIds |-> "none"]
    /\ UNCHANGED sharedResult
    /\ UNCHANGED notMask

NextMask ==
    \/ \E sourceData \in Buffers, maskData \in Buffers \cup {<<>>}, useMask \in BOOLEAN, numWorkers \in 1..MaxWorkers :
          M_call(sourceData, maskData, useMask, numWorkers)
    \/ \E w \in WorkerIds : W_process(w)
    \/ \E w \in WorkerIds : W_error(w)
    \/ M_settle

SpecMask == InitImages /\ [][NextMask]_vars

\* The mask applied to a whole buffer, pixel by pixel from offset 0: the
\* handler with start = 0 and end = length, and processPixels over its blocks.
MaskWhole(view, maskView, useMask) == Process(view, maskView, useMask, 0, Len(view))

\* The workers of the call, and whether each has posted 'done'.
CallWorkers == {w \in WorkerIds : w < maskCall.numWorkers}
AllDone == maskCall.pc # "idle" /\ \A w \in CallWorkers : imageWorkers[w] = "done"

\* C38: the mask step is idempotent in both modes, and changes alpha bytes
\* only: for the buffers of every call, masking the masked buffer again gives
\* the masked buffer, every byte that is not the fourth of its pixel is the
\* source's, and a single worker leaves exactly the masked buffer in
\* sharedResult.
C38_MaskIsIdempotent ==
    maskCall.pc # "idle" =>
        LET once == MaskWhole(maskCall.sourceData, maskCall.maskData, maskCall.useMask)
            twice == MaskWhole(once, maskCall.maskData, maskCall.useMask)
        IN /\ twice = once
           /\ Len(once) = Len(maskCall.sourceData)
           /\ \A i \in 1..Len(once) : i % 4 # 0 => once[i] = maskCall.sourceData[i]
           /\ (maskCall.numWorkers = 1 /\ imageWorkers[0] = "done") => sharedResult = once

\* C38 witness: a single worker has masked a buffer without a mask image and
\* made a pixel transparent.
C38_Witness ==
    /\ maskCall.numWorkers = 1
    /\ imageWorkers[0] = "done"
    /\ ~maskCall.useMask
    /\ sharedResult # maskCall.sourceData

\* C39: for every worker count, once every worker has posted 'done' the shared
\* buffer equals the buffer masked sequentially pixel by pixel.
C39_WorkersEqualSequential ==
    AllDone => sharedResult = MaskWhole(maskCall.sourceData, maskCall.maskData, maskCall.useMask)

\* The event loop delivers the message to every started worker, and the await
\* of processWithWorkers continues once Promise.all has settled.
FairMask ==
    /\ WF_vars(\E w \in WorkerIds : W_process(w))
    /\ WF_vars(M_settle)

SpecMaskFair == SpecMask /\ FairMask

\* C40: once every worker has processed its chunk and posted 'done', the
\* promise of processWithWorkers resolves and all workers are terminated.
C40_DoneLeadsToResolved ==
    AllDone ~> (maskCall.pc = "resolved" /\ \A w \in WorkerIds : imageWorkers[w] = "none")

=============================================================================
